---- MODULE Spec2Model ----
(***************************************************************************)
(* Rheology solver (src/src/App.jsx): Laplace-domain impedance of a tree   *)
(* of springs and dashpots, the response sampler with load removal, and    *)
(* the App component that schedules the computations.                      *)
(*                                                                         *)
(* Numbers.  JavaScript numbers are IEEE-754 doubles.  They are modelled   *)
(* here as exact rationals extended with +Infinity, -Infinity and NaN:     *)
(* every arithmetic operation returns the exact real result where the      *)
(* double operation returns the nearest double (relative error 1.1e-16).   *)
(* The integers of the rationals are arbitrary-size naturals kept as       *)
(* little-endian sequences of base-10000 limbs, so that the probes 1e12    *)
(* and 1e15 and the thresholds 1e-30 and 1e30 are exact.                   *)
(***************************************************************************)
EXTENDS Integers, Sequences, FiniteSets, TLC

(***************************************************************************)
(* State.  Four state machines share the variables: a call of the          *)
(* sampler (SpecSampler), a call of creepAtTime or relaxAtTime             *)
(* (SpecResponse), a call of impedance (SpecImpedance) and the component   *)
(* App with its pending timers (SpecApp).  Each specification leaves the   *)
(* variables of the others at their idle values.  The module-level state   *)
(* of App.jsx is coeffs, written once when the module is loaded, and       *)
(* _idCounter.                                                             *)
(***************************************************************************)
VARIABLES
  callArgs,       \* the arguments of the sampler call
  callFn,         \* "none", then the function that was called
  callResult,     \* the array it returned
  zNode,          \* the node impedance is called with
  zFreq,          \* its argument s
  zResult,        \* [z, calls] once the call returned
  model,          \* App state: the tree
  sigma0, eps0, tMax, tRemoval, enableRemoval, nPoints,
  plotData,       \* null or [creep, relax]
  computing,
  timers,         \* pending setTimeout callbacks, oldest first
  idCounter,      \* the module-level _idCounter
  edits,          \* number of user edits so far
  treeEdits,      \* how many of them changed the tree
  coeffs,         \* the module-level array coeffs
  plotArgs,       \* history: the inputs plotData was computed from
  buf,            \* null, or [id, text]: the text typed in the parameter
                  \* field of node id and not yet committed
  selectedId,     \* null or the id of the node selected in the editor
  thrown,         \* history: the call that threw in the last callback of a
                  \* timer, or "none"
  props,          \* AnimatedSchematic: [creepData, relaxData], the series it
                  \* is given
  animMode,       \* "creep" or "relax"
  playing,
  frameIndex,     \* -1 = static/reset
  interrupted     \* history: playback was paused, reset, scrubbed, switched
                  \* to a mode or given new data since the last Play

vars == << callArgs, callFn, callResult, zNode, zFreq, zResult, model, sigma0,
          eps0, tMax, tRemoval, enableRemoval, nPoints, plotData, computing,
          timers, idCounter, edits, treeEdits, coeffs, plotArgs,
          buf, selectedId, thrown, props, animMode, playing, frameIndex,
          interrupted >>

playbackVars == << props, animMode, playing, frameIndex, interrupted >>
samplerVars == << callArgs, callFn, callResult >>
impedanceVars == << zNode, zFreq, zResult >>
appVars == << playbackVars, model, sigma0, eps0, tMax, tRemoval, enableRemoval, nPoints,
             plotData, computing, timers, idCounter, edits, treeEdits,
             plotArgs, buf, selectedId, thrown >>

(***************************************************************************)
(* Arbitrary-size naturals: <<>> is 0, no most-significant zero limb.      *)
(***************************************************************************)
\* the limbs are four decimal digits: a product of two limbs stays a small integer
Base == 100 * 100

RECURSIVE NTrim(_)
NTrim(a) ==
  IF a = <<>> THEN <<>>
  ELSE IF a[Len(a)] = 0 THEN NTrim(SubSeq(a, 1, Len(a) - 1))
  ELSE a

RECURSIVE NFromInt(_)
NFromInt(k) ==
  IF k = 0 THEN <<>> ELSE <<k % Base>> \o NFromInt(k \div Base)

RECURSIVE NAddC(_, _, _)
NAddC(a, b, c) ==
  IF a = <<>> /\ b = <<>> THEN (IF c = 0 THEN <<>> ELSE <<c>>)
  ELSE LET x == IF a = <<>> THEN 0 ELSE Head(a)
           y == IF b = <<>> THEN 0 ELSE Head(b)
           ra == IF a = <<>> THEN <<>> ELSE Tail(a)
           rb == IF b = <<>> THEN <<>> ELSE Tail(b)
           t == x + y + c
       IN <<t % Base>> \o NAddC(ra, rb, t \div Base)

NAdd(a, b) == NAddC(a, b, 0)

\* a - b for a >= b
RECURSIVE NSubB(_, _, _)
NSubB(a, b, br) ==
  IF a = <<>> THEN <<>>
  ELSE LET y == IF b = <<>> THEN 0 ELSE Head(b)
           rb == IF b = <<>> THEN <<>> ELSE Tail(b)
           t == Head(a) - y - br
       IN IF t < 0 THEN <<t + Base>> \o NSubB(Tail(a), rb, 1)
          ELSE <<t>> \o NSubB(Tail(a), rb, 0)

NSub(a, b) == NTrim(NSubB(a, b, 0))

\* -1, 0, 1 as a < b, a = b, a > b
RECURSIVE NCmpTop(_, _, _)
NCmpTop(a, b, k) ==
  IF k = 0 THEN 0
  ELSE IF a[k] < b[k] THEN -1
  ELSE IF a[k] > b[k] THEN 1
  ELSE NCmpTop(a, b, k - 1)

NCmp(a, b) ==
  IF Len(a) < Len(b) THEN -1
  ELSE IF Len(a) > Len(b) THEN 1
  ELSE NCmpTop(a, b, Len(a))

\* a * k for 0 <= k < Base
RECURSIVE NMulSmallC(_, _, _)
NMulSmallC(a, k, c) ==
  IF a = <<>> THEN (IF c = 0 THEN <<>> ELSE <<c>>)
  ELSE LET t == Head(a) * k + c
       IN <<t % Base>> \o NMulSmallC(Tail(a), k, t \div Base)

NMulSmall(a, k) == IF k = 0 THEN <<>> ELSE NMulSmallC(a, k, 0)

RECURSIVE NMul(_, _)
NMul(a, b) ==
  IF a = <<>> \/ b = <<>> THEN <<>>
  ELSE NAdd(NMulSmall(a, Head(b)),
            LET r == NMul(a, Tail(b)) IN IF r = <<>> THEN <<>> ELSE <<0>> \o r)

\* the largest k in lo..hi-1 with k * b <= r, given lo * b <= r < hi * b
RECURSIVE NQuotDigit(_, _, _, _)
NQuotDigit(r, b, lo, hi) ==
  IF hi - lo <= 1 THEN lo
  ELSE LET mid == (lo + hi) \div 2
       IN IF NCmp(NMulSmall(b, mid), r) <= 0 THEN NQuotDigit(r, b, mid, hi)
          ELSE NQuotDigit(r, b, lo, mid)

\* the quotient digit of r by b for r < Base * b: the leading limbs of r and b
\* bound it from both sides
NQuot(r, b) ==
  IF Len(r) < Len(b) THEN 0
  ELSE LET m == Len(b)
           bt == b[m]
           rt == IF Len(r) > m THEN r[m + 1] * Base + r[m] ELSE r[m]
           top == rt \div bt + 1
       IN NQuotDigit(r, b, rt \div (bt + 1), IF top > Base THEN Base ELSE top)

\* one step of the long division: the partial result hi of the higher limbs
\* is extended by the limb h
NDivStep(h, hi, b) ==
  IF hi.q = <<>> /\ hi.r = <<>> /\ h = 0 THEN hi
  ELSE LET r0 == NTrim(<<h>> \o hi.r)
           qd == NQuot(r0, b)
       IN IF r0 = <<>> THEN [q |-> NTrim(<<0>> \o hi.q), r |-> <<>>]
          ELSE [q |-> NTrim(<<qd>> \o hi.q), r |-> NSub(r0, NMulSmall(b, qd))]

RECURSIVE NDivLong(_, _)
NDivLong(a, b) ==
  IF a = <<>> \/ b = <<>> THEN [q |-> <<>>, r |-> <<>>]
  ELSE NDivStep(Head(a), NDivLong(Tail(a), b), b)

\* the value of a natural of at most two limbs
NSmall(a) ==
  IF a = <<>> THEN 0 ELSE IF Len(a) = 1 THEN a[1] ELSE a[1] + Base * a[2]

\* long division, b # 0: [q, r] with a = q * b + r and r < b
NDivMod(a, b) ==
  IF Len(a) <= 2 /\ Len(b) <= 2
    THEN [q |-> NFromInt(NSmall(a) \div NSmall(b)), r |-> NFromInt(NSmall(a) % NSmall(b))]
  ELSE NDivLong(a, b)

RECURSIVE NGcd(_, _)
\* Euclid's algorithm, four divisions a round
NGcd(a, b) ==
  IF b = <<>> THEN a
  ELSE LET r1 == NDivMod(a, b).r
       IN IF r1 = <<>> THEN b
          ELSE LET r2 == NDivMod(b, r1).r
               IN IF r2 = <<>> THEN r1
                  ELSE LET r3 == NDivMod(r1, r2).r
                       IN IF r3 = <<>> THEN r2
                          ELSE NGcd(r3, NDivMod(r2, r3).r)

RECURSIVE NPow10(_)
NPow10(e) ==
  IF e >= 4 THEN <<0>> \o NPow10(e - 4)
  ELSE IF e = 3 THEN <<1000>> ELSE IF e = 2 THEN <<100>>
  ELSE IF e = 1 THEN <<10>> ELSE <<1>>

(***************************************************************************)
(* Numbers: [k, s, n, d].  k = "fin": the rational s * n / d in lowest     *)
(* terms (s in {-1, 0, 1}, d > 0); k = "inf": s * Infinity; k = "nan".     *)
(***************************************************************************)
QZero == [k |-> "fin", s |-> 0, n |-> <<>>, d |-> <<1>>]
QNaN == [k |-> "nan", s |-> 0, n |-> <<>>, d |-> <<1>>]
QInf(sg) == [k |-> "inf", s |-> sg, n |-> <<>>, d |-> <<1>>]
Infinity == QInf(1)

\* the integer literal i
QInt(i) ==
  IF i = 0 THEN QZero
  ELSE [k |-> "fin", s |-> IF i < 0 THEN -1 ELSE 1,
        n |-> NFromInt(IF i < 0 THEN -i ELSE i), d |-> <<1>>]

IsFin(a) == a.k = "fin"
IsNaN(a) == a.k = "nan"

QNeg(a) == [a EXCEPT !.s = -a.s]
\* Math.abs
QAbs(a) == [a EXCEPT !.s = IF a.s = 0 THEN 0 ELSE 1]

(***************************************************************************)
(* Run(fn, a) is the call of fn on the arguments a: fn is one of the       *)
(* arithmetic operations below or one of the functions of the program that *)
(* the state machines call.  The operations are named here and defined     *)
(* next; Run itself follows the sampler.  (Every call goes through the one *)
(* recursive operator so that TLC keeps a single copy of each definition   *)
(* in its coverage bookkeeping, which otherwise copies a definition at     *)
(* every place that uses it.)                                              *)
(***************************************************************************)
RECURSIVE Run(_, _)

\* the rational sg * n / d in lowest terms
QMake(sg, n, d) == Run("QMake", << sg, n, d >>)
\* the literal a / b, b > 0
QRat(a, b) == Run("QRat", << a, b >>)
\* the literal m e x (m * 10^x), m an integer
QSci(m, x) == Run("QSci", << m, x >>)
\* a + b, a * b, a / b, a < b
QAdd(a, b) == Run("+", << a, b >>)
QMul(a, b) == Run("*", << a, b >>)
QDiv(a, b) == Run("/", << a, b >>)
QLt(a, b) == Run("<", << a, b >>)
\* parseFloat(x.toFixed(6))
toFixed6(x) == Run("toFixed6", << x >>)
\* Math.round(x)
mathRound(x) == Run("Math.round", << x >>)

Half == QRat(1, 2)

Lowest(sg, n, d) ==
  IF n = <<>> \/ sg = 0 THEN QZero
  ELSE IF n = <<1>> \/ d = <<1>> THEN [k |-> "fin", s |-> sg, n |-> n, d |-> d]
  ELSE LET g == NGcd(n, d)
       IN IF g = <<1>> THEN [k |-> "fin", s |-> sg, n |-> n, d |-> d]
          ELSE [k |-> "fin", s |-> sg, n |-> NDivMod(n, g).q,
                d |-> NDivMod(d, g).q]

Ratio(a, b) ==
  IF a < 0 THEN QMake(-1, NFromInt(-a), NFromInt(b))
  ELSE QMake(1, NFromInt(a), NFromInt(b))

Scientific(m, x) ==
  IF x >= 0
    THEN QMake(IF m < 0 THEN -1 ELSE 1,
               NMul(NFromInt(IF m < 0 THEN -m ELSE m), NPow10(x)), <<1>>)
  ELSE QMake(IF m < 0 THEN -1 ELSE 1, NFromInt(IF m < 0 THEN -m ELSE m),
             NPow10(-x))

\* a + b
Sum(a, b) ==
  IF IsNaN(a) \/ IsNaN(b) THEN QNaN
  ELSE IF a.k = "inf" THEN (IF b.k = "inf" /\ b.s # a.s THEN QNaN ELSE a)
  ELSE IF b.k = "inf" THEN b
  ELSE IF a.s = 0 THEN b
  ELSE IF b.s = 0 THEN a
  ELSE LET x == NMul(a.n, b.d)
           y == NMul(b.n, a.d)
           d == NMul(a.d, b.d)
       IN IF a.s = b.s THEN QMake(a.s, NAdd(x, y), d)
          ELSE LET c == NCmp(x, y)
               IN IF c = 0 THEN QZero
                  ELSE IF c > 0 THEN QMake(a.s, NSub(x, y), d)
                  ELSE QMake(b.s, NSub(y, x), d)

\* a - b
QSub(a, b) == QAdd(a, QNeg(b))

\* a * b
Product(a, b) ==
  IF IsNaN(a) \/ IsNaN(b) THEN QNaN
  ELSE IF a.k = "inf" \/ b.k = "inf"
    THEN (IF a.s = 0 \/ b.s = 0 THEN QNaN ELSE QInf(a.s * b.s))
  ELSE QMake(a.s * b.s, NMul(a.n, b.n), NMul(a.d, b.d))

\* a / b  (x / 0 is an infinity of the sign of x, 0 / 0 is NaN)
Quotient(a, b) ==
  IF IsNaN(a) \/ IsNaN(b) THEN QNaN
  ELSE IF a.k = "inf" THEN (IF b.k = "inf" THEN QNaN
                            ELSE QInf(IF b.s < 0 THEN -a.s ELSE a.s))
  ELSE IF b.k = "inf" THEN QZero
  ELSE IF b.s = 0 THEN (IF a.s = 0 THEN QNaN ELSE QInf(a.s))
  ELSE QMake(a.s * b.s, NMul(a.n, b.d), NMul(a.d, b.n))

\* a < b  (false when either is NaN)
Less(a, b) ==
  IF IsNaN(a) \/ IsNaN(b) THEN FALSE
  ELSE IF a.k = "inf" THEN a.s < 0 /\ ~(b.k = "inf" /\ b.s < 0)
  ELSE IF b.k = "inf" THEN b.s > 0
  ELSE IF a.s # b.s THEN a.s < b.s
  ELSE IF a.s = 0 THEN FALSE
  ELSE LET c == NCmp(NMul(a.n, b.d), NMul(b.n, a.d))
       IN IF a.s > 0 THEN c < 0 ELSE c > 0

\* a <= b, a > b, a >= b  (false when either is NaN)
QLe(a, b) == ~IsNaN(a) /\ ~IsNaN(b) /\ ~QLt(b, a)
QGt(a, b) == QLt(b, a)
QGe(a, b) == QLe(b, a)
\* a === b
QEq(a, b) == ~IsNaN(a) /\ ~IsNaN(b) /\ a = b

(***************************************************************************)
(* parseFloat(x.toFixed(6)): the multiple of 1e-6 nearest to x, a tie      *)
(* going away from zero (Number.prototype.toFixed picks the larger n for   *)
(* the magnitude); toFixed returns the plain String(x) from 1e21 on and    *)
(* for Infinity and NaN, which parseFloat reads back unchanged.            *)
(***************************************************************************)
\* a variant that cuts the digits after the sixth instead of rounding
Round6Truncating(x) ==
  IF ~IsFin(x) THEN x
  ELSE IF x.s = 0 THEN QZero
  ELSE IF NCmp(x.n, NMul(x.d, NPow10(21))) >= 0 THEN x
  ELSE QMake(x.s, NDivMod(NMul(x.n, NPow10(6)), x.d).q, NPow10(6))

Round6(x) ==
  IF ~IsFin(x) THEN x
  ELSE IF x.s = 0 THEN QZero
  ELSE IF NCmp(x.n, NMul(x.d, NPow10(21))) >= 0 THEN x
  ELSE LET m == NDivMod(NAdd(NMulSmall(NMul(x.n, NPow10(6)), 2), x.d),
                        NMulSmall(x.d, 2)).q
       IN QMake(x.s, m, NPow10(6))

(***************************************************************************)
(* Math.round(x): the integer nearest to x, a tie going up.                *)
(***************************************************************************)
RoundHalfUp(x) ==
  IF ~IsFin(x) THEN x
  ELSE LET y == QAdd(x, Half)
           q == NDivMod(y.n, y.d)
       IN IF y.s >= 0 THEN QMake(1, q.q, <<1>>)
          ELSE QMake(-1, IF q.r = <<>> THEN q.q ELSE NAdd(q.q, <<1>>), <<1>>)

(***************************************************************************)
(* Model trees.  A node is a record: [type |-> "spring", id, E],           *)
(* [type |-> "dashpot", id, eta], [type |-> "series" or "parallel", id,    *)
(* children]; the solver reads type, E, eta and children only.             *)
(***************************************************************************)
Spring(i, e) == [type |-> "spring", id |-> i, E |-> e]
Dashpot(i, e) == [type |-> "dashpot", id |-> i, eta |-> e]
Group(ty, i, cs) == [type |-> ty, id |-> i, children |-> cs]

(***************************************************************************)
(* impedance(node, s), with the order of its recursive calls: the result   *)
(* is [z, calls], calls the sequence of the nodes impedance was entered    *)
(* with, in call order.                                                    *)
(***************************************************************************)
ShortThreshold == QSci(1, -30)

RECURSIVE impedanceEval(_, _)
RECURSIVE seriesLoop(_, _, _, _, _)
RECURSIVE parallelLoop(_, _, _, _, _)

\* a variant of the series branch that adds the impedances of the children
seriesLoopAddsImpedances(children, s, k, totalCompliance, calls) ==
  IF k > Len(children)
    THEN [z |-> IF QEq(totalCompliance, QZero) THEN Infinity
                ELSE QDiv(QInt(1), totalCompliance),
          calls |-> calls]
  ELSE LET r == impedanceEval(children[k], s)
       IN IF QLt(QAbs(r.z), ShortThreshold)
            THEN [z |-> QZero, calls |-> calls \o r.calls]
          ELSE seriesLoop(children, s, k + 1, QAdd(totalCompliance, r.z),
                          calls \o r.calls)

\* a variant of the series branch that notes the short, goes on through the
\* remaining children and returns 0 at the end
seriesLoopShortAtEnd(children, s, k, totalCompliance, calls) ==
  IF k > Len(children)
    THEN [z |-> IF QEq(totalCompliance, QZero) THEN Infinity
                ELSE QDiv(QInt(1), totalCompliance),
          calls |-> calls]
  ELSE LET r == impedanceEval(children[k], s)
       IN IF QLt(QAbs(r.z), ShortThreshold)
            THEN [z |-> QZero,
                  calls |-> seriesLoop(children, s, k + 1, totalCompliance,
                                       calls \o r.calls).calls]
          ELSE seriesLoop(children, s, k + 1,
                          QAdd(totalCompliance, QDiv(QInt(1), r.z)),
                          calls \o r.calls)

\* a variant of the series branch without the rigid case: a compliance sum of
\* 0 gives the impedance 0
seriesLoopNoRigidCase(children, s, k, totalCompliance, calls) ==
  IF k > Len(children)
    THEN [z |-> IF QEq(totalCompliance, QZero) THEN QZero
                ELSE QDiv(QInt(1), totalCompliance),
          calls |-> calls]
  ELSE LET r == impedanceEval(children[k], s)
       IN IF QLt(QAbs(r.z), ShortThreshold)
            THEN [z |-> QZero, calls |-> calls \o r.calls]
          ELSE seriesLoop(children, s, k + 1,
                          QAdd(totalCompliance, QDiv(QInt(1), r.z)),
                          calls \o r.calls)

\* for (const child of node.children) of the series branch, from child k on
seriesLoop(children, s, k, totalCompliance, calls) ==
  IF k > Len(children)
    THEN [z |-> IF QEq(totalCompliance, QZero) THEN Infinity
                ELSE QDiv(QInt(1), totalCompliance),
          calls |-> calls]
  ELSE LET r == impedanceEval(children[k], s)
       IN IF QLt(QAbs(r.z), ShortThreshold)
            THEN [z |-> QZero, calls |-> calls \o r.calls]
          ELSE seriesLoop(children, s, k + 1,
                          QAdd(totalCompliance, QDiv(QInt(1), r.z)),
                          calls \o r.calls)

\* for (const child of node.children) of the parallel branch, from child k on
parallelLoop(children, s, k, totalZ, calls) ==
  IF k > Len(children) THEN [z |-> totalZ, calls |-> calls]
  ELSE LET r == impedanceEval(children[k], s)
       IN parallelLoop(children, s, k + 1, QAdd(totalZ, r.z), calls \o r.calls)

impedanceEval(node, s) ==
  IF node.type = "spring" THEN [z |-> node.E, calls |-> <<node>>]
  ELSE IF node.type = "dashpot" THEN [z |-> QMul(node.eta, s), calls |-> <<node>>]
  ELSE IF node.type = "series" THEN seriesLoop(node.children, s, 1, QZero, <<node>>)
  ELSE IF node.type = "parallel" THEN parallelLoop(node.children, s, 1, QZero, <<node>>)
  ELSE [z |-> QZero, calls |-> <<node>>]

impedance(node, s) == impedanceEval(node, s).z

STEHFEST_N == 12

(***************************************************************************)
(* Values of the time-domain responses.  The Stehfest sum of               *)
(* inverseLaplace is not evaluated: for t > 0 its result is the term       *)
(* [op |-> "ilt", F, t, V], F the closure it was given ([fn, model, mag]:  *)
(* the function and the variables it captures) and V the coefficients it   *)
(* read.  A value is a number                                              *)
(* Num(q), such a term, or a difference or a rounding of values that is    *)
(* computed as soon as its operands are numbers.                           *)
(***************************************************************************)
Num(q) == [op |-> "num", q |-> q]
VSub(a, b) ==
  IF a.op = "num" /\ b.op = "num" THEN Num(QSub(a.q, b.q))
  ELSE [op |-> "sub", a |-> a, b |-> b]
\* parseFloat(v.toFixed(6))
VFixed6(v) ==
  IF v.op = "num" THEN Num(toFixed6(v.q)) ELSE [op |-> "fix6", a |-> v]

\* stehfestCoeffs(N), not evaluated
stehfestCoeffs(N) == [op |-> "stehfestCoeffs", N |-> N]

\* a variant whose sum uses the module-level id counter
inverseLaplaceCounting(F, t) ==
  IF QLe(t, QZero) THEN Num(QZero)
  ELSE [op |-> "ilt", F |-> F, t |-> t, V |-> idCounter]

\* the sum reads the module-level array coeffs
inverseLaplace(F, t) ==
  IF QLe(t, QZero) THEN Num(QZero)
  ELSE [op |-> "ilt", F |-> F, t |-> t, V |-> coeffs]

ProbeBase == QSci(1, 12)
ProbeInstant == QSci(1, 15)

\* a variant without the test for a zero impedance
creepAtTimeNoZeroTest(mdl, t, sig0) ==
  IF QLe(t, QZero)
    THEN LET z0 == impedance(mdl, ProbeBase) IN Num(QDiv(sig0, z0))
  ELSE inverseLaplace([fn |-> "creep", model |-> mdl, mag |-> sig0], t)

creepAtTime(mdl, t, sig0) ==
  IF QLe(t, QZero)
    THEN LET z0 == impedance(mdl, ProbeBase)
         IN Num(IF QEq(z0, QZero) THEN QZero ELSE QDiv(sig0, z0))
  ELSE inverseLaplace([fn |-> "creep", model |-> mdl, mag |-> sig0], t)

relaxAtTime(mdl, t, ep0) ==
  IF QLe(t, QZero)
    THEN LET z0 == impedance(mdl, ProbeBase) IN Num(QMul(ep0, z0))
  ELSE inverseLaplace([fn |-> "relax", model |-> mdl, mag |-> ep0], t)

instantElasticStrain(mdl, sig0) ==
  LET zInf == impedance(mdl, ProbeInstant)
  IN Num(IF QEq(zInf, QZero) THEN QZero ELSE QDiv(sig0, zInf))

\* a variant that probes at the frequency of the t <= 0 base value
instantElasticStressAtBaseProbe(mdl, ep0) ==
  LET zInf == impedance(mdl, ProbeBase) IN Num(QMul(ep0, zInf))

instantElasticStress(mdl, ep0) ==
  LET zInf == impedance(mdl, ProbeInstant) IN Num(QMul(ep0, zInf))

(***************************************************************************)
(* The response sampler.  tRemoval is a number or Null; a sampled point is *)
(* [t, value, load].                                                       *)
(***************************************************************************)
Null == [k |-> "null", s |-> 0, n |-> <<>>, d |-> <<1>>]

Point(t, v, l) == [t |-> t, value |-> v, load |-> l]

\* variants of the crossing test that drop one of its two comparisons
isCrossingNoLowerTest(tPrev, t, tRem, i) ==
  /\ tRem # Null /\ i > 0
  /\ QGe(t, tRem)

isCrossingNoUpperTest(tPrev, t, tRem, i) ==
  /\ tRem # Null /\ i > 0
  /\ QLt(tPrev, tRem)

\* if (tRemoval != null && i > 0) { ... if (tPrev < tRemoval && t >= tRemoval)
isCrossing(tPrev, t, tRem, i) ==
  /\ tRem # Null /\ i > 0
  /\ QLt(tPrev, tRem) /\ QGe(t, tRem)

\* a variant that also skips the grid point exactly half a step away
skipRegularInclusive(t, tRem, tEnd, nPts) ==
  QLe(QAbs(QSub(t, tRem)), QMul(QDiv(tEnd, nPts), Half))

\* a variant that never skips the grid point of the crossing step
skipRegularNever(t, tRem, tEnd, nPts) == FALSE

\* if (Math.abs(t - tRemoval) < (tMax / nPoints) * 0.5) continue;
skipRegular(t, tRem, tEnd, nPts) ==
  QLt(QAbs(QSub(t, tRem)), QMul(QDiv(tEnd, nPts), Half))

\* a variant without the null test (null compares as 0)
loadRemovedNoNullTest(t, tRem) == QGt(t, tRem)

\* a variant that takes the load off before tRemoval
loadRemovedBefore(t, tRem) == tRem # Null /\ QLt(t, tRem)

\* tRemoval != null && t > tRemoval
loadRemoved(t, tRem) == tRem # Null /\ QGt(t, tRem)

\* a variant that subtracts the response at t1 instead of at t - t1
creepValueUnshifted(mdl, t, sig0, tRem) ==
  IF loadRemoved(t, tRem)
    THEN VSub(creepAtTime(mdl, t, sig0), creepAtTime(mdl, tRem, sig0))
  ELSE creepAtTime(mdl, t, sig0)

\* the value of a regular point of computeCreep
creepValue(mdl, t, sig0, tRem) ==
  IF loadRemoved(t, tRem)
    THEN VSub(creepAtTime(mdl, t, sig0), creepAtTime(mdl, QSub(t, tRem), sig0))
  ELSE creepAtTime(mdl, t, sig0)

\* the value of a regular point of computeRelaxation
relaxValue(mdl, t, ep0, tRem) ==
  IF loadRemoved(t, tRem)
    THEN VSub(relaxAtTime(mdl, t, ep0), relaxAtTime(mdl, QSub(t, tRem), ep0))
  ELSE relaxAtTime(mdl, t, ep0)

\* the points one iteration of the loop of computeCreep pushes
creepIteration(mdl, tEnd, nPts, sig0, tRem, instantDrop, i) ==
  LET t == QMul(QDiv(QInt(i), nPts), tEnd)
      tPrev == QMul(QDiv(QInt(i - 1), nPts), tEnd)
      crossing == isCrossing(tPrev, t, tRem, i)
      valBefore == creepAtTime(mdl, tRem, sig0)
      valAfter == VSub(valBefore, instantDrop)
      injected ==
        IF crossing
          THEN << Point(toFixed6(tRem), VFixed6(valBefore), sig0),
                  Point(toFixed6(tRem), VFixed6(valAfter), QZero) >>
        ELSE <<>>
  IN IF crossing /\ skipRegular(t, tRem, tEnd, nPts) THEN injected
     ELSE injected \o << Point(toFixed6(t), VFixed6(creepValue(mdl, t, sig0, tRem)),
                               IF loadRemoved(t, tRem) THEN QZero ELSE sig0) >>

RECURSIVE creepLoop(_, _, _, _, _, _, _, _)
creepLoop(mdl, tEnd, nPts, sig0, tRem, instantDrop, i, data) ==
  IF ~QLe(QInt(i), nPts) THEN data
  ELSE creepLoop(mdl, tEnd, nPts, sig0, tRem, instantDrop, i + 1,
                 data \o creepIteration(mdl, tEnd, nPts, sig0, tRem,
                                        instantDrop, i))

computeCreep(mdl, tEnd, nPts, sig0, tRem) ==
  creepLoop(mdl, tEnd, nPts, sig0, tRem,
            instantElasticStrain(mdl, sig0), 0, <<>>)

\* the points one iteration of the loop of computeRelaxation pushes
relaxIteration(mdl, tEnd, nPts, ep0, tRem, instantDrop, i) ==
  LET t == QMul(QDiv(QInt(i), nPts), tEnd)
      tPrev == QMul(QDiv(QInt(i - 1), nPts), tEnd)
      crossing == isCrossing(tPrev, t, tRem, i)
      valBefore == relaxAtTime(mdl, tRem, ep0)
      valAfter == VSub(valBefore, instantDrop)
      injected ==
        IF crossing
          THEN << Point(toFixed6(tRem), VFixed6(valBefore), ep0),
                  Point(toFixed6(tRem), VFixed6(valAfter), QZero) >>
        ELSE <<>>
  IN IF crossing /\ skipRegular(t, tRem, tEnd, nPts) THEN injected
     ELSE injected \o << Point(toFixed6(t), VFixed6(relaxValue(mdl, t, ep0, tRem)),
                               IF loadRemoved(t, tRem) THEN QZero ELSE ep0) >>

RECURSIVE relaxLoop(_, _, _, _, _, _, _, _)
relaxLoop(mdl, tEnd, nPts, ep0, tRem, instantDrop, i, data) ==
  IF ~QLe(QInt(i), nPts) THEN data
  ELSE relaxLoop(mdl, tEnd, nPts, ep0, tRem, instantDrop, i + 1,
                 data \o relaxIteration(mdl, tEnd, nPts, ep0, tRem,
                                        instantDrop, i))

\* a variant whose loop starts at i = 1
computeRelaxationFromOne(mdl, tEnd, nPts, ep0, tRem) ==
  relaxLoop(mdl, tEnd, nPts, ep0, tRem,
            instantElasticStress(mdl, ep0), 1, <<>>)

computeRelaxation(mdl, tEnd, nPts, ep0, tRem) ==
  relaxLoop(mdl, tEnd, nPts, ep0, tRem,
            instantElasticStress(mdl, ep0), 0, <<>>)

(***************************************************************************)
(* parseFloat on a text, a sequence of characters: leading blanks, a sign, *)
(* Infinity or digits with an optional fraction and an optional exponent;  *)
(* what follows the longest such prefix is ignored, and NaN is returned    *)
(* when there is no digit.                                                 *)
(***************************************************************************)
DecimalDigits == {"0", "1", "2", "3", "4", "5", "6", "7", "8", "9"}
DigitValue(ch) ==
  CASE ch = "0" -> 0 [] ch = "1" -> 1 [] ch = "2" -> 2 [] ch = "3" -> 3
    [] ch = "4" -> 4 [] ch = "5" -> 5 [] ch = "6" -> 6 [] ch = "7" -> 7
    [] ch = "8" -> 8 [] ch = "9" -> 9

RECURSIVE SkipBlanks(_, _)
SkipBlanks(text, i) ==
  IF i <= Len(text) /\ text[i] = " " THEN SkipBlanks(text, i + 1) ELSE i

RECURSIVE DigitsEnd(_, _)
\* the position after the digits of text that start at i
DigitsEnd(text, i) ==
  IF i <= Len(text) /\ text[i] \in DecimalDigits THEN DigitsEnd(text, i + 1)
  ELSE i

RECURSIVE DigitsValue(_, _, _, _)
\* the integer written by text[i .. j - 1] after the digits of acc
DigitsValue(text, i, j, acc) ==
  IF i >= j THEN acc
  ELSE DigitsValue(text, i + 1, j, 10 * acc + DigitValue(text[i]))

InfinityText == << "I", "n", "f", "i", "n", "i", "t", "y" >>

DecimalLiteral(text) ==
  LET a == SkipBlanks(text, 1)
      signed == a <= Len(text) /\ text[a] \in {"+", "-"}
      sg == IF signed /\ text[a] = "-" THEN -1 ELSE 1
      b == IF signed THEN a + 1 ELSE a
      c == DigitsEnd(text, b)
      hasDot == c <= Len(text) /\ text[c] = "."
      d == IF hasDot THEN DigitsEnd(text, c + 1) ELSE c
      fracLen == IF hasDot THEN d - (c + 1) ELSE 0
      hasE == d <= Len(text) /\ text[d] \in {"e", "E"}
      eSigned == hasE /\ d + 1 <= Len(text) /\ text[d + 1] \in {"+", "-"}
      e1 == IF eSigned THEN d + 2 ELSE d + 1
      e2 == IF hasE THEN DigitsEnd(text, e1) ELSE e1
      expo == IF hasE /\ e2 > e1
                THEN (IF eSigned /\ text[d + 1] = "-" THEN -1 ELSE 1)
                     * DigitsValue(text, e1, e2, 0)
              ELSE 0
      mant == IF hasDot
                THEN DigitsValue(text, c + 1, d, DigitsValue(text, b, c, 0))
              ELSE DigitsValue(text, b, c, 0)
  IN IF b + 7 <= Len(text) /\ SubSeq(text, b, b + 7) = InfinityText
       THEN QInf(sg)
     ELSE IF (c - b) + fracLen = 0 THEN QNaN
     ELSE QSci(sg * mant, expo - fracLen)

(***************************************************************************)
(* The Stehfest sum evaluated.  The terms above stand for the results of   *)
(* inverseLaplace; here the sum is computed as the code computes it, in    *)
(* the arithmetic of the code: a double is [k, s, m, e], for k = "fin" the *)
(* number s * m * 2^e with 2^52 <= m < 2^53 (m = <<>> and e = 0 for 0),    *)
(* and the result of every operation is rounded to the nearest double,     *)
(* ties to even.  The values met are far from the overflow and subnormal   *)
(* ranges, which are left out, and so is the sign of zero.                 *)
(***************************************************************************)
RECURSIVE NShift(_, _)
\* a * 2^k
NShift(a, k) ==
  IF k >= 13 /\ a # <<>> THEN NShift(NMulSmallC(a, 8192, 0), k - 13)
  ELSE IF k >= 1 THEN NMulSmallC(a, 2 ^ k, 0)
  ELSE a
NPow2(k) == NShift(<<1>>, k)
TwoTo40 == NPow2(40)
TwoTo52 == NPow2(52)
TwoTo53 == NPow2(53)
TwoTo54 == NPow2(54)
TwoTo67 == NPow2(67)

RECURSIVE Normalised(_, _, _)
\* [n, d, e] with n / d * 2^e the value n / d given at e = 0 and
\* 2^53 <= n / d < 2^54
Normalised(n, d, e) ==
  IF NCmp(n, NMul(d, TwoTo53)) < 0
    THEN IF NCmp(n, NMul(d, TwoTo40)) < 0
           THEN Normalised(NMulSmallC(n, 8192, 0), d, e - 13)
         ELSE Normalised(NMulSmallC(n, 2, 0), d, e - 1)
  ELSE IF NCmp(n, NMul(d, TwoTo54)) >= 0
    THEN IF NCmp(n, NMul(d, TwoTo67)) >= 0
           THEN Normalised(n, NMulSmallC(d, 8192, 0), e + 13)
         ELSE Normalised(n, NMulSmallC(d, 2, 0), e + 1)
  ELSE [n |-> n, d |-> d, e |-> e]

\* the binary logarithm of a natural a > 0, rounded down, or up to two less
NLog2(a) ==
  LET top == a[Len(a)]
  IN (1328771 * (Len(a) - 1)) \div 100000
       + (CHOOSE k \in 0 .. 13 : 2 ^ k <= top /\ top < 2 ^ (k + 1))

\* Normalised(n, d, 0), reached in few steps: n or d is first multiplied by
\* the power of 2 that the sizes of n and d call for
Scaled(n, d) ==
  LET k == 53 - (NLog2(n) - NLog2(d))
  IN IF k >= 0 THEN Normalised(NShift(n, k), d, -k)
     ELSE Normalised(n, NShift(d, -k), -k)

DZero == [k |-> "fin", s |-> 0, m |-> <<>>, e |-> 0]
DNaN == [k |-> "nan", s |-> 0, m |-> <<>>, e |-> 0]
DInfinity(sg) == [k |-> "inf", s |-> sg, m |-> <<>>, e |-> 0]

\* the double nearest to sg * (n / d) * 2^e, n > 0 and d > 0
DRound(sg, n, d, e) ==
  LET nm == Scaled(n, d)
      qr == NDivMod(nm.n, nm.d)
      half == NDivMod(qr.q, <<2>>)
      up == /\ half.r # <<>>
            /\ qr.r # <<>> \/ Head(half.q) % 2 = 1
      m == IF up THEN NAdd(half.q, <<1>>) ELSE half.q
  IN IF m = TwoTo53
       THEN [k |-> "fin", s |-> sg, m |-> TwoTo52, e |-> nm.e + e + 2]
     ELSE [k |-> "fin", s |-> sg, m |-> m, e |-> nm.e + e + 1]

\* the double a number of the exact arithmetic is read as
DoubleOf(x) ==
  IF IsNaN(x) THEN DNaN
  ELSE IF ~IsFin(x) THEN DInfinity(x.s)
  ELSE IF x.s = 0 THEN DZero
  ELSE DRound(x.s, x.n, x.d, 0)

\* the number a double is, in the exact arithmetic
RationalOf(x) ==
  IF x.k = "nan" THEN QNaN
  ELSE IF x.k = "inf" THEN QInf(x.s)
  ELSE IF x.s = 0 THEN QZero
  ELSE IF x.e >= 0 THEN QMake(x.s, NShift(x.m, x.e), <<1>>)
  ELSE QMake(x.s, x.m, NPow2(-x.e))

DNeg(a) == [a EXCEPT !.s = -a.s]

\* a * b
DMul(a, b) ==
  IF a.k = "nan" \/ b.k = "nan" THEN DNaN
  ELSE IF a.k = "inf" \/ b.k = "inf"
    THEN (IF a.s = 0 \/ b.s = 0 THEN DNaN ELSE DInfinity(a.s * b.s))
  ELSE IF a.s = 0 \/ b.s = 0 THEN DZero
  ELSE DRound(a.s * b.s, NMul(a.m, b.m), <<1>>, a.e + b.e)

\* a / b
DDiv(a, b) ==
  IF a.k = "nan" \/ b.k = "nan" THEN DNaN
  ELSE IF a.k = "inf"
    THEN (IF b.k = "inf" THEN DNaN
          ELSE DInfinity(IF b.s = 0 THEN a.s ELSE a.s * b.s))
  ELSE IF b.k = "inf" THEN DZero
  ELSE IF b.s = 0 THEN (IF a.s = 0 THEN DNaN ELSE DInfinity(a.s))
  ELSE IF a.s = 0 THEN DZero
  ELSE DRound(a.s * b.s, a.m, b.m, a.e - b.e)

\* a + b for finite a and b, neither of them 0, a.e >= b.e: beyond 60 binary
\* places b is below a quarter of the last place of a
DAddAligned(a, b) ==
  IF a.e - b.e > 60 THEN a
  ELSE LET na == NShift(a.m, a.e - b.e)
           c == NCmp(na, b.m)
       IN IF a.s = b.s THEN DRound(a.s, NAdd(na, b.m), <<1>>, b.e)
          ELSE IF c = 0 THEN DZero
          ELSE IF c > 0 THEN DRound(a.s, NSub(na, b.m), <<1>>, b.e)
          ELSE DRound(b.s, NSub(b.m, na), <<1>>, b.e)

\* a + b
DAdd(a, b) ==
  IF a.k = "nan" \/ b.k = "nan" THEN DNaN
  ELSE IF a.k = "inf"
    THEN (IF b.k = "inf" /\ b.s # a.s THEN DNaN ELSE a)
  ELSE IF b.k = "inf" THEN b
  ELSE IF a.s = 0 THEN b
  ELSE IF b.s = 0 THEN a
  ELSE IF a.e >= b.e THEN DAddAligned(a, b)
  ELSE DAddAligned(b, a)

\* a - b
DSub(a, b) == DAdd(a, DNeg(b))

\* Math.abs(a) < b for a double b > 0
DAbsLess(a, b) ==
  /\ a.k = "fin"
  /\ \/ a.s = 0
     \/ a.e < b.e
     \/ a.e = b.e /\ NCmp(a.m, b.m) < 0

RECURSIVE factorialLoop(_, _, _)
factorialLoop(n, i, r) ==
  IF i > n \/ r.k # "fin" THEN r
  ELSE factorialLoop(n, i + 1, DMul(r, DoubleOf(QInt(i))))
factorial(n) ==
  IF n < 0 THEN DInfinity(1) ELSE IF n <= 1 THEN DoubleOf(QInt(1))
  ELSE factorialLoop(n, 2, DoubleOf(QInt(1)))

RECURSIVE mathPow(_, _)
\* Math.pow(b, e) for integers b and e >= 0 with b^e < 2^53
mathPow(b, e) ==
  IF e = 0 THEN DoubleOf(QInt(1)) ELSE DMul(DoubleOf(QInt(b)), mathPow(b, e - 1))

\* num / den of the inner loop of stehfestCoeffs
stehfestTerm(N, i, k) ==
  LET num == DMul(mathPow(k, N \div 2), factorial(2 * k))
      den == DMul(DMul(DMul(DMul(factorial(N \div 2 - k), factorial(k)),
                            factorial(k - 1)),
                       factorial(i - k)),
                  factorial(2 * k - i))
  IN DDiv(num, den)

RECURSIVE stehfestInner(_, _, _, _, _)
stehfestInner(N, i, k, kMax, sum) ==
  IF k > kMax \/ sum.k = "nan" THEN sum
  ELSE stehfestInner(N, i, k + 1, kMax, DAdd(sum, stehfestTerm(N, i, k)))

\* a variant that starts the sum at the ceiling of (i + 1) / 2
kMinCeiling(i) == (i + 2) \div 2

\* const kMin = Math.floor((i + 1) / 2)
kMinOf(i) == (i + 1) \div 2
\* const kMax = Math.min(i, N / 2)
kMaxOf(N, i) == IF i < N \div 2 THEN i ELSE N \div 2

\* V[i - 1] of stehfestCoeffs(N)
stehfestV(N, i) ==
  LET sum == stehfestInner(N, i, kMinOf(i), kMaxOf(N, i), DZero)
  IN IF (i + N \div 2) % 2 = 0 THEN sum ELSE DNeg(sum)

RECURSIVE stehfestFill(_, _)
stehfestFill(N, i) ==
  IF i > N THEN <<>> ELSE << stehfestV(N, i) >> \o stehfestFill(N, i + 1)

\* const coeffs = stehfestCoeffs(STEHFEST_N): the array, computed once
coeffsArray == stehfestFill(STEHFEST_N, 1)

\* the array a term stehfestCoeffs(N) stands for
stehfestArray(c) ==
  IF c.N = STEHFEST_N THEN coeffsArray ELSE stehfestFill(c.N, 1)

\* Math.LN2
LN2 ==
  [k |-> "fin", s |-> 1,
   m |-> NAdd(NMul(NFromInt(62433147), NFromInt(100000000)), NFromInt(68165359)),
   e |-> -53]

\* 1e-30, the threshold of the series branch
DShortThreshold == DoubleOf(QSci(1, -30))

RECURSIVE impedanceDouble(_, _)
RECURSIVE seriesDouble(_, _, _, _)
RECURSIVE parallelDouble(_, _, _, _)

\* for (const child of node.children) of the series branch, from child k on
seriesDouble(children, s, k, totalCompliance) ==
  IF k > Len(children)
    THEN (IF totalCompliance = DZero THEN DInfinity(1)
          ELSE DDiv(DoubleOf(QInt(1)), totalCompliance))
  ELSE LET z == impedanceDouble(children[k], s)
       IN IF DAbsLess(z, DShortThreshold) THEN DZero
          ELSE seriesDouble(children, s, k + 1,
                            DAdd(totalCompliance, DDiv(DoubleOf(QInt(1)), z)))

\* for (const child of node.children) of the parallel branch, from child k on
parallelDouble(children, s, k, totalZ) ==
  IF k > Len(children) \/ totalZ.k = "nan" THEN totalZ
  ELSE parallelDouble(children, s, k + 1,
                      DAdd(totalZ, impedanceDouble(children[k], s)))

\* impedance(node, s) in the arithmetic of the code
impedanceDouble(node, s) ==
  IF node.type = "spring" THEN DoubleOf(node.E)
  ELSE IF node.type = "dashpot" THEN DMul(DoubleOf(node.eta), s)
  ELSE IF node.type = "series" THEN seriesDouble(node.children, s, 1, DZero)
  ELSE IF node.type = "parallel" THEN parallelDouble(node.children, s, 1, DZero)
  ELSE DZero

\* a variant of the function creepAtTime hands over, without the division
\* by s
closureAtNoDivision(F, s) ==
  IF F.fn = "creep"
    THEN LET z == impedanceDouble(F.model, s)
         IN IF z = DZero THEN DoubleOf(QSci(1, 30))
            ELSE DDiv(DoubleOf(F.mag), z)
  ELSE DDiv(DMul(DoubleOf(F.mag), impedanceDouble(F.model, s)), s)

\* a variant that puts the sentinel in the denominator
closureAtSentinelBelow(F, s) ==
  IF F.fn = "creep"
    THEN LET z == impedanceDouble(F.model, s)
         IN IF z = DZero THEN DDiv(DoubleOf(F.mag), DoubleOf(QSci(1, 30)))
            ELSE DDiv(DoubleOf(F.mag), DMul(s, z))
  ELSE DDiv(DMul(DoubleOf(F.mag), impedanceDouble(F.model, s)), s)

\* F(s) for the function creepAtTime or relaxAtTime hands to inverseLaplace
closureAt(F, s) ==
  IF F.fn = "creep"
    THEN LET z == impedanceDouble(F.model, s)
         IN IF z = DZero THEN DoubleOf(QSci(1, 30))
            ELSE DDiv(DoubleOf(F.mag), DMul(s, z))
  ELSE DDiv(DMul(DoubleOf(F.mag), impedanceDouble(F.model, s)), s)

RECURSIVE stehfestLoop(_, _, _, _, _)
\* the loop of inverseLaplace from index i on (i counts from 0)
stehfestLoop(F, ln2_over_t, V, i, sum) ==
  IF i >= Len(V) \/ sum.k = "nan" THEN sum
  ELSE LET s == DMul(DoubleOf(QInt(i + 1)), ln2_over_t)
       IN stehfestLoop(F, ln2_over_t, V, i + 1,
                       DAdd(sum, DMul(V[i + 1], closureAt(F, s))))

\* a variant that returns the sum without the factor ln2 / t
stehfestSumUnscaled(F, t, V) ==
  LET ln2_over_t == DDiv(LN2, DoubleOf(t))
  IN stehfestLoop(F, ln2_over_t, V, 0, DZero)

\* inverseLaplace(F, t) for t > 0 with the coefficients V
stehfestSum(F, t, V) ==
  LET ln2_over_t == DDiv(LN2, DoubleOf(t))
  IN DMul(stehfestLoop(F, ln2_over_t, V, 0, DZero), ln2_over_t)

RECURSIVE DoubleValue(_, _)
\* the double a value stands for, V being the array of coefficients
DoubleValue(v, V) ==
  CASE v.op = "num" -> DoubleOf(v.q)
    [] v.op = "ilt" -> stehfestSum(v.F, v.t, V)
    [] v.op = "sub" -> DSub(DoubleValue(v.a, V), DoubleValue(v.b, V))
    [] v.op = "fix6" -> DoubleOf(toFixed6(RationalOf(DoubleValue(v.a, V))))

\* the number a value stands for: a rounded value is the decimal itself
NumberOf(v, V) ==
  LET x == DoubleValue(IF v.op = "fix6" THEN v.a ELSE v, V)
  IN IF x.k # "fin" \/ v.op # "fix6" THEN RationalOf(x)
     ELSE toFixed6(RationalOf(x))

(***************************************************************************)
(* The calls.                                                              *)
(***************************************************************************)
Run(fn, a) ==
  CASE fn = "QMake" -> Lowest(a[1], a[2], a[3])
    [] fn = "+" -> Sum(a[1], a[2])
    [] fn = "*" -> Product(a[1], a[2])
    [] fn = "/" -> Quotient(a[1], a[2])
    [] fn = "<" -> Less(a[1], a[2])
    [] fn = "QRat" -> Ratio(a[1], a[2])
    [] fn = "QSci" -> Scientific(a[1], a[2])
    [] fn = "toFixed6" -> Round6(a[1])
    [] fn = "Math.round" -> RoundHalfUp(a[1])
    [] fn = "parseFloat" -> DecimalLiteral(a[1])
    [] fn = "impedance" -> impedanceEval(a[1], a[2])
    [] fn = "creepAtTime" -> creepAtTime(a[1], a[2], a[3])
    [] fn = "relaxAtTime" -> relaxAtTime(a[1], a[2], a[3])
    [] fn = "computeCreep" -> computeCreep(a[1], a[2], a[3], a[4], a[5])
    [] fn = "computeRelaxation" ->
         computeRelaxation(a[1], a[2], a[3], a[4], a[5])

(***************************************************************************)
(* Preset models (PRESETS).                                                *)
(***************************************************************************)
PresetMaxwell ==
  Group("series", "root", << Spring("s1", QInt(100)), Dashpot("d1", QInt(50)) >>)
PresetVoigt ==
  Group("parallel", "root", << Spring("s1", QInt(100)), Dashpot("d1", QInt(50)) >>)
PresetStd3Maxwell ==
  Group("parallel", "root",
        << Spring("s1", QInt(60)),
           Group("series", "arm", << Spring("s2", QInt(100)), Dashpot("d1", QInt(50)) >>) >>)
PresetStd3Voigt ==
  Group("series", "root",
        << Spring("s1", QInt(100)),
           Group("parallel", "arm", << Spring("s2", QInt(60)), Dashpot("d1", QInt(50)) >>) >>)
PresetBurgers ==
  Group("series", "root",
        << Spring("s1", QInt(100)), Dashpot("d1", QInt(200)),
           Group("parallel", "kv", << Spring("s2", QInt(80)), Dashpot("d2", QInt(40)) >>) >>)
PresetGenMaxwell ==
  Group("parallel", "root",
        << Spring("s_eq", QInt(30)),
           Group("series", "arm1", << Spring("s1", QInt(80)), Dashpot("d1", QInt(40)) >>),
           Group("series", "arm2", << Spring("s2", QInt(50)), Dashpot("d2", QInt(120)) >>) >>)
PRESETS ==
  [maxwell |-> PresetMaxwell, voigt |-> PresetVoigt,
   std3maxwell |-> PresetStd3Maxwell, std3voigt |-> PresetStd3Voigt,
   burgers |-> PresetBurgers, genmaxwell |-> PresetGenMaxwell]

SamplerIdle == callArgs = Null /\ callFn = "idle" /\ callResult = <<>>
ImpedanceIdle == zNode = Null /\ zFreq = Null /\ zResult = Null
PlaybackIdle ==
  /\ props = Null /\ animMode = "creep" /\ playing = FALSE
  /\ frameIndex = -1 /\ interrupted = FALSE
AppStateIdle ==
  /\ model = Null /\ sigma0 = Null /\ eps0 = Null /\ tMax = Null
  /\ tRemoval = Null /\ enableRemoval = FALSE /\ nPoints = 0
  /\ plotData = Null /\ computing = FALSE /\ timers = <<>>
  /\ idCounter = 0 /\ edits = 0 /\ treeEdits = 0 /\ plotArgs = Null
  /\ buf = Null /\ selectedId = Null /\ thrown = "none"
AppIdle == AppStateIdle /\ PlaybackIdle

(***************************************************************************)
(* SpecSampler: one call of computeCreep or computeRelaxation on arguments *)
(* drawn from bounded sets: trees with Z > 0 and the empty parallel group  *)
(* (Z = 0), tMax > 0, 1 <= nPoints <= MaxPoints, and tRemoval null or one  *)
(* of the multiples k * tMax / RemovalSteps, k = -1 .. RemovalSteps + 1    *)
(* (below 0, 0, inside, on and between grid nodes, tMax, beyond tMax).     *)
(***************************************************************************)
MaxPoints == 4
RemovalSteps == 8

SamplerModels == {PresetMaxwell, PresetVoigt, Group("parallel", "root", <<>>)}
SamplerHorizons == {QInt(10), QSci(3, -6)}
SamplerMagnitudes == {QInt(1), QRat(5, 2), QRat(1, 3)}

RemovalTimes(tEnd) ==
  {Null} \cup {QMul(QRat(k, RemovalSteps), tEnd) : k \in -1 .. RemovalSteps + 1}

InitSampler ==
  /\ \E m \in SamplerModels, T \in SamplerHorizons, n \in 1 .. MaxPoints,
        g \in SamplerMagnitudes :
       \E r \in RemovalTimes(T) :
         callArgs = [model |-> m, tMax |-> T, nPoints |-> n, magnitude |-> g,
                     tRemoval |-> r]
  /\ callFn = "none"
  /\ callResult = <<>>
  /\ coeffs = stehfestCoeffs(STEHFEST_N)
  /\ ImpedanceIdle /\ AppIdle

CallComputeCreep ==
  /\ callFn = "none"
  /\ callFn' = "computeCreep"
  /\ callResult' = Run("computeCreep",
                     << callArgs.model, callArgs.tMax, QInt(callArgs.nPoints),
                        callArgs.magnitude, callArgs.tRemoval >>)
  /\ UNCHANGED << callArgs, coeffs, impedanceVars, appVars >>

CallComputeRelaxation ==
  /\ callFn = "none"
  /\ callFn' = "computeRelaxation"
  /\ callResult' = Run("computeRelaxation",
                     << callArgs.model, callArgs.tMax, QInt(callArgs.nPoints),
                        callArgs.magnitude, callArgs.tRemoval >>)
  /\ UNCHANGED << callArgs, coeffs, impedanceVars, appVars >>

NextSampler == CallComputeCreep \/ CallComputeRelaxation

SpecSampler == InitSampler /\ [][NextSampler]_vars

(***************************************************************************)
(* SpecResponse: one call of creepAtTime or relaxAtTime on a tree (the     *)
(* presets, the empty parallel group, Z = 0, and a lone spring of          *)
(* stiffness 1, Z = 1), a time below 0, 0 or above 0, and a magnitude.     *)
(***************************************************************************)
\* a series group holding one spring of stiffness 1: Z(s) = 1
UnitSpring == Group("series", "root", << Spring("s1", QInt(1)) >>)

ResponseModels ==
  {PRESETS[key] : key \in DOMAIN PRESETS}
    \cup {Group("parallel", "root", <<>>), UnitSpring}
ResponseTimes ==
  {QInt(-5), QRat(-1, 2), QZero, QSci(1, -6), QRat(7, 3), QInt(5)}

InitResponse ==
  /\ \E m \in ResponseModels, T \in ResponseTimes, g \in SamplerMagnitudes :
       callArgs = [model |-> m, t |-> T, magnitude |-> g]
  /\ callFn = "none"
  /\ callResult = <<>>
  /\ coeffs = stehfestCoeffs(STEHFEST_N)
  /\ ImpedanceIdle /\ AppIdle

CallCreepAtTime ==
  /\ callFn = "none"
  /\ callFn' = "creepAtTime"
  /\ callResult' = Run("creepAtTime",
                       << callArgs.model, callArgs.t, callArgs.magnitude >>)
  /\ UNCHANGED << callArgs, coeffs, impedanceVars, appVars >>

CallRelaxAtTime ==
  /\ callFn = "none"
  /\ callFn' = "relaxAtTime"
  /\ callResult' = Run("relaxAtTime",
                       << callArgs.model, callArgs.t, callArgs.magnitude >>)
  /\ UNCHANGED << callArgs, coeffs, impedanceVars, appVars >>

NextResponse == CallCreepAtTime \/ CallRelaxAtTime

SpecResponse == InitResponse /\ [][NextResponse]_vars

(***************************************************************************)
(* SpecStehfest: one call of stehfestCoeffs(N) for an even N, the inner    *)
(* loop taken one iteration at a time.  As for inverseLaplace the sums are *)
(* not evaluated: the running sum is the sequence of the indices k whose   *)
(* term num / den was added, in the order of the additions, and an entry   *)
(* of V is the number 0 it was filled with or the term                     *)
(* [op |-> "weight", N, i, negate, ks].  While the call runs callResult is *)
(* [V, i, k, sum]; once it has returned callResult is the array.           *)
(***************************************************************************)
MaxHalf == 6

InitStehfest ==
  /\ \E h \in 1 .. MaxHalf : callArgs = [N |-> 2 * h]
  /\ callFn = "none"
  /\ callResult = <<>>
  /\ coeffs = stehfestCoeffs(STEHFEST_N)
  /\ ImpedanceIdle /\ AppIdle

\* const V = new Array(N).fill(0); and the head of the first iteration of
\* for (let i = 1; i <= N; i++)
CallStehfestCoeffs ==
  /\ callFn = "none"
  /\ callFn' = "stehfestCoeffs"
  /\ callResult' = [V |-> [j \in 1 .. callArgs.N |-> [op |-> "zero"]],
                     i |-> 1, k |-> kMinOf(1), sum |-> <<>>]
  /\ UNCHANGED << callArgs, coeffs, impedanceVars, appVars >>

\* one iteration of for (let k = kMin; k <= kMax; k++): sum += num / den
InnerIteration ==
  /\ callFn = "stehfestCoeffs"
  /\ callResult.i <= callArgs.N
  /\ callResult.k <= kMaxOf(callArgs.N, callResult.i)
  /\ callResult' = [callResult EXCEPT !.sum = Append(@, callResult.k),
                                       !.k = @ + 1]
  /\ UNCHANGED << callArgs, callFn, coeffs, impedanceVars, appVars >>

\* V[i - 1] = Math.pow(-1, i + N / 2) * sum; and the head of the next
\* iteration of the outer loop
OuterIteration ==
  /\ callFn = "stehfestCoeffs"
  /\ callResult.i <= callArgs.N
  /\ callResult.k > kMaxOf(callArgs.N, callResult.i)
  /\ callResult' =
       [V |-> [callResult.V EXCEPT
                 ![callResult.i] =
                   [op |-> "weight", N |-> callArgs.N, i |-> callResult.i,
                    negate |-> (callResult.i + callArgs.N \div 2) % 2 # 0,
                    ks |-> callResult.sum]],
        i |-> callResult.i + 1,
        k |-> kMinOf(callResult.i + 1),
        sum |-> <<>>]
  /\ UNCHANGED << callArgs, callFn, coeffs, impedanceVars, appVars >>

\* return V
ReturnStehfestCoeffs ==
  /\ callFn = "stehfestCoeffs"
  /\ callResult.i > callArgs.N
  /\ callFn' = "returned"
  /\ callResult' = callResult.V
  /\ UNCHANGED << callArgs, coeffs, impedanceVars, appVars >>

NextStehfest ==
  \/ CallStehfestCoeffs
  \/ InnerIteration
  \/ OuterIteration
  \/ ReturnStehfestCoeffs

SpecStehfest == InitStehfest /\ [][NextStehfest]_vars

(***************************************************************************)
(* SpecInverse: one call of inverseLaplace(F, t) on a function creepAtTime *)
(* or relaxAtTime builds and a time below 0, 0 or above 0, the loop taken  *)
(* one iteration at a time.  callResult is [i, calls, value]: the loop     *)
(* variable, the indices i + 1 of the abscissas (i + 1) * ln2_over_t at    *)
(* which F was called so far, in the order of the calls, and the value     *)
(* returned (Null until the return).                                       *)
(***************************************************************************)
InverseModels ==
  {PresetMaxwell, PresetVoigt, Group("parallel", "root", <<>>), UnitSpring}
InverseMagnitudes == {QInt(1), QRat(5, 2)}

InitInverse ==
  /\ \E fn \in {"creep", "relax"}, m \in InverseModels,
        g \in InverseMagnitudes, T \in ResponseTimes :
       callArgs = [F |-> [fn |-> fn, model |-> m, mag |-> g], t |-> T]
  /\ callFn = "none"
  /\ callResult = <<>>
  /\ coeffs = stehfestCoeffs(STEHFEST_N)
  /\ ImpedanceIdle /\ AppIdle

\* a variant that returns 0 below 0 only
returnsZeroBelow(t) == QLt(t, QZero)

\* if (t <= 0) return 0;
returnsZero(t) == QLe(t, QZero)

\* the call up to the head of the loop
CallInverseLaplace ==
  /\ callFn = "none"
  /\ IF returnsZero(callArgs.t)
       THEN /\ callFn' = "returned"
            /\ callResult' = [i |-> 0, calls |-> <<>>, value |-> Num(QZero)]
     ELSE /\ callFn' = "inverseLaplace"
          /\ callResult' = [i |-> 0, calls |-> <<>>, value |-> Null]
  /\ UNCHANGED << callArgs, coeffs, impedanceVars, appVars >>

\* one iteration of for (let i = 0; i < STEHFEST_N; i++):
\* sum += coeffs[i] * F((i + 1) * ln2_over_t)
LoopIteration ==
  /\ callFn = "inverseLaplace"
  /\ callResult.i < STEHFEST_N
  /\ callResult' = [callResult EXCEPT !.calls = Append(@, callResult.i + 1),
                                       !.i = @ + 1]
  /\ UNCHANGED << callArgs, callFn, coeffs, impedanceVars, appVars >>

\* return sum * ln2_over_t
ReturnInverseLaplace ==
  /\ callFn = "inverseLaplace"
  /\ callResult.i >= STEHFEST_N
  /\ callFn' = "returned"
  /\ callResult' = [callResult EXCEPT
                      !.value = [op |-> "ilt", F |-> callArgs.F,
                                 t |-> callArgs.t, V |-> coeffs]]
  /\ UNCHANGED << callArgs, coeffs, impedanceVars, appVars >>

NextInverse ==
  \/ CallInverseLaplace
  \/ LoopIteration
  \/ ReturnInverseLaplace

SpecInverse == InitInverse /\ [][NextInverse]_vars

(***************************************************************************)
(* SpecImpedance: one call of impedance on a tree and a frequency s > 0    *)
(* drawn from bounded sets.  The leaves are a spring, a dashpot, a spring  *)
(* of stiffness exactly 1e-30 (not a short), a spring of stiffness 1e-31   *)
(* (a short) and a node of an unknown type; the inner groups are a series  *)
(* and a parallel pair, a series pair with a short, and the two empty      *)
(* groups; the trees are the leaves, the inner groups and the groups of at *)
(* most MaxChildren of them.                                               *)
(***************************************************************************)
MaxChildren == 2

SeqsUpTo(S, n) == UNION {[1 .. k -> S] : k \in 0 .. n}

ZLeaves ==
  { Spring("s1", QInt(100)), Dashpot("d1", QInt(50)),
    Spring("s2", QSci(1, -30)), Spring("s3", QSci(1, -31)),
    [type |-> "mass", id |-> "m1"] }
ZInner ==
  ZLeaves \cup
  { Group("series", "g1", << Spring("s1", QInt(100)), Dashpot("d1", QInt(50)) >>),
    Group("parallel", "g2", << Spring("s1", QInt(100)), Dashpot("d1", QInt(50)) >>),
    Group("series", "g3", << Dashpot("d1", QInt(50)), Spring("s3", QSci(1, -31)) >>),
    Group("series", "g4", <<>>),
    Group("parallel", "g5", <<>>) }
ZTrees ==
  ZInner \cup
  { Group(ty, "root", cs) :
      ty \in {"series", "parallel"}, cs \in SeqsUpTo(ZInner, MaxChildren) }
ZFreqs == {QInt(2), QSci(1, 12)}

InitImpedance ==
  /\ zNode \in ZTrees
  /\ zFreq \in ZFreqs
  /\ zResult = Null
  /\ coeffs = stehfestCoeffs(STEHFEST_N)
  /\ SamplerIdle /\ AppIdle

Evaluate ==
  /\ zResult = Null
  /\ zResult' = Run("impedance", << zNode, zFreq >>)
  /\ UNCHANGED << zNode, zFreq, coeffs, samplerVars, appVars >>

NextImpedance == Evaluate

SpecImpedance == InitImpedance /\ [][NextImpedance]_vars

(***************************************************************************)
(* SpecApp: the component App of the production build (StrictMode does     *)
(* nothing there; React batches the state updates of one handler).  An     *)
(* action is one event handler together with the render and the effect     *)
(* that follow it: a changed input gives compute a new identity, the       *)
(* effect calls it, and it registers a timer whose callback closes over    *)
(* the inputs of that render.  Nothing ever clears a timer; timers of      *)
(* equal delay fire in the order they were set.  Every render of App       *)
(* evaluates cloneModel(PRESETS["std-3-maxwell"].model) again and so uses  *)
(* up ids.  A generated id "n" + k is the pair <<"n", k>>.                 *)
(***************************************************************************)
MaxEdits == 2
MaxTreeEdits == 1
AppPoints == 2     \* stands for the initial resolution useState(200)

genId(c) == << "n", c >>

RECURSIVE NodeCount(_)
RECURSIVE NodeCountSeq(_, _)
NodeCountSeq(cs, k) ==
  IF k = 0 THEN 0 ELSE NodeCountSeq(cs, k - 1) + NodeCount(cs[k])
NodeCount(node) ==
  IF "children" \in DOMAIN node
    THEN 1 + NodeCountSeq(node.children, Len(node.children))
  ELSE 1

RECURSIVE cloneModel(_, _)
RECURSIVE cloneChildren(_, _, _)
\* node.children.map(cloneModel) from child k on, the counter being at c
cloneChildren(cs, k, c) ==
  IF k > Len(cs) THEN <<>>
  ELSE << cloneModel(cs[k], c) >> \o cloneChildren(cs, k + 1, c + NodeCount(cs[k]))
\* cloneModel(node) when _idCounter is c; it leaves it at c + NodeCount(node)
cloneModel(node, c) ==
  IF "children" \in DOMAIN node
    THEN [node EXCEPT !.id = genId(c),
                      !.children = cloneChildren(node.children, 1, c + 1)]
  ELSE [node EXCEPT !.id = genId(c)]

RECURSIVE updateNode(_, _, _, _)
\* updateNode(tree, id, (n) => ({ ...n, [key]: val }))
updateNode(tree, id, key, val) ==
  IF tree.id = id
    THEN IF key \in DOMAIN tree THEN [tree EXCEPT ![key] = val]
         ELSE tree @@ (key :> val)
  ELSE IF "children" \in DOMAIN tree
    THEN [tree EXCEPT !.children =
            [k \in 1 .. Len(tree.children) |->
               updateNode(tree.children[k], id, key, val)]]
  ELSE tree

RECURSIVE removeNode(_, _)
removeNode(tree, id) ==
  IF tree.id = id THEN Null
  ELSE IF "children" \in DOMAIN tree
    THEN LET Kept(n) == n # Null
         IN [tree EXCEPT !.children =
               SelectSeq([k \in 1 .. Len(tree.children) |->
                            removeNode(tree.children[k], id)], Kept)]
  ELSE tree

RECURSIVE addChild(_, _, _)
addChild(tree, parentId, child) ==
  IF tree.id = parentId /\ "children" \in DOMAIN tree
    THEN [tree EXCEPT !.children = Append(tree.children, child)]
  ELSE IF "children" \in DOMAIN tree
    THEN [tree EXCEPT !.children =
            [k \in 1 .. Len(tree.children) |->
               addChild(tree.children[k], parentId, child)]]
  ELSE tree

RECURSIVE NodesOf(_)
\* the nodes of a tree (what the tree view and the schematic let the user select)
NodesOf(tree) ==
  IF "children" \in DOMAIN tree
    THEN {tree} \cup UNION {NodesOf(tree.children[k]) : k \in 1 .. Len(tree.children)}
  ELSE {tree}

\* the variables the callback of setTimeout closes over
Closure(m, tm, np, s0, e0, tr, en) ==
  [model |-> m, tMax |-> tm, nPoints |-> np, sigma0 |-> s0, eps0 |-> e0,
   tRemoval |-> tr, enableRemoval |-> en]

\* ids one render of App uses up
RenderIds == NodeCount(PRESETS.std3maxwell)

\* a variant of compute that sets no timer while one is pending
computeUnlessPending(queue, closure) ==
  IF queue # <<>> THEN queue ELSE Append(queue, closure)

\* compute(): setTimeout registers the callback after the pending ones
compute(queue, closure) == Append(queue, closure)

InitApp ==
  /\ model = cloneModel(PRESETS.std3maxwell, 100)
  /\ sigma0 = QInt(1) /\ eps0 = QInt(1)
  /\ tMax = QInt(10) /\ tRemoval = QInt(5)
  /\ enableRemoval = TRUE
  /\ nPoints = QInt(AppPoints)
  /\ plotData = Null
  \* after the first render and its effect: compute() has run once
  /\ computing = TRUE
  /\ timers = compute(<<>>, Closure(model, tMax, nPoints, sigma0, eps0,
                                    tRemoval, enableRemoval))
  /\ idCounter = 100 + 2 * RenderIds
  /\ edits = 0 /\ treeEdits = 0
  /\ coeffs = stehfestCoeffs(STEHFEST_N)
  /\ plotArgs = Null
  /\ buf = Null
  /\ selectedId = Null
  /\ thrown = "none"
  /\ SamplerIdle /\ ImpedanceIdle /\ PlaybackIdle

\* the render after a handler changed an input, and the effect it runs:
\* used is the number of ids the handler itself generated.  NumericInput is
\* declared in the body of App: every render of App mounts the fields anew,
\* with the text of their value
Recompute(closure, used) ==
  /\ timers' = compute(timers, closure)
  /\ buf' = Null
  /\ computing' = TRUE
  /\ idCounter' = idCounter + used + RenderIds * (IF computing THEN 1 ELSE 2)
  /\ edits' = edits + 1
  /\ UNCHANGED << plotData, plotArgs, thrown, coeffs, samplerVars,
                  impedanceVars, playbackVars >>

\* setModel(m) and setSelectedId(sel) in one handler: the model is a new
\* object, so compute always gets a new identity
setModelAndSelected(m, used, sel) ==
  /\ model' = m
  /\ selectedId' = sel
  /\ treeEdits' = treeEdits + 1
  /\ UNCHANGED << sigma0, eps0, tMax, tRemoval, enableRemoval, nPoints >>
  /\ Recompute(Closure(m, tMax, nPoints, sigma0, eps0, tRemoval,
                       enableRemoval), used)

\* setModel(m) alone
setModel(m, used) == setModelAndSelected(m, used, selectedId)

\* setModel(cloneModel(PRESETS[key].model)); setSelectedId(null);
handlePreset(key) ==
  setModelAndSelected(cloneModel(PRESETS[key], idCounter),
                      NodeCount(PRESETS[key]), Null)

handleAddSpring(parentId) ==
  setModel(addChild(model, parentId, Spring(genId(idCounter), QInt(100))), 1)

handleAddDashpot(parentId) ==
  setModel(addChild(model, parentId, Dashpot(genId(idCounter), QInt(50))), 1)

\* a variant that calls genId once and gives the id to the arm and its children
handleAddSeriesOneId(parentId) ==
  setModel(addChild(model, parentId,
                    Group("series", genId(idCounter),
                          << Spring(genId(idCounter), QInt(100)),
                             Dashpot(genId(idCounter), QInt(50)) >>)), 1)

handleAddSeries(parentId) ==
  setModel(addChild(model, parentId,
                    Group("series", genId(idCounter),
                          << Spring(genId(idCounter + 1), QInt(100)),
                             Dashpot(genId(idCounter + 2), QInt(50)) >>)), 3)

handleAddParallel(parentId) ==
  setModel(addChild(model, parentId,
                    Group("parallel", genId(idCounter),
                          << Spring(genId(idCounter + 1), QInt(100)),
                             Dashpot(genId(idCounter + 2), QInt(50)) >>)), 3)

\* a variant without the test for the root and the test of the new model
removeRequestAny(tree, id) ==
  [model |-> removeNode(tree, id), selectedId |-> Null]

\* what handleRemove(id) stores for the model tree: Null when it returns
\* without a call of setModel and setSelectedId
removeRequest(tree, id) ==
  IF id = tree.id THEN Null
  ELSE LET newModel == removeNode(tree, id)
       IN IF newModel # Null THEN [model |-> newModel, selectedId |-> Null]
          ELSE Null

handleRemove(id) ==
  LET stored == removeRequest(model, id)
  IN IF stored = Null THEN UNCHANGED vars
     ELSE setModelAndSelected(stored.model, 0, stored.selectedId)

handleParamChange(id, key, val) ==
  IF QLe(val, QZero) THEN UNCHANGED vars
  ELSE setModel(updateNode(model, id, key, val), 0)

handleConvertGroup(id, newType) ==
  setModel(updateNode(model, id, "type", newType), 0)

parseFloat(text) == Run("parseFloat", << text >>)

\* NumericInput.handleChange in the field of the selected spring or dashpot.
\* The text is typed at once: typing over a text that is not committed yet
\* leads to a state that typing the new text at once leads to as well
handleChange(id, text) ==
  /\ buf = Null
  /\ buf' = [id |-> id, text |-> text]
  /\ UNCHANGED << playbackVars, selectedId, thrown, model, sigma0, eps0, tMax, tRemoval, enableRemoval, nPoints,
                  plotData, plotArgs, computing, timers, idCounter, edits,
                  treeEdits, coeffs, samplerVars, impedanceVars >>

\* a variant of the test of commit that lets every text through
mayCommitAnything(num) == TRUE

\* !isNaN(num) && num > 0
mayCommit(num) == ~IsNaN(num) /\ QGt(num, QZero)

\* NumericInput.commit (on blur or Enter) in the field of the selected
\* spring or dashpot; a text that is refused is replaced by the text of
\* the value
commit ==
  /\ buf # Null
  /\ LET num == parseFloat(buf.text)
         n == CHOOSE x \in NodesOf(model) : x.id = buf.id
     IN IF mayCommit(num)
          THEN handleParamChange(n.id, IF n.type = "spring" THEN "E" ELSE "eta",
                                 num)
        ELSE /\ buf' = Null
             /\ UNCHANGED << playbackVars, selectedId, thrown, model, sigma0, eps0, tMax, tRemoval,
                             enableRemoval, nPoints, plotData, plotArgs,
                             computing, timers, idCounter, edits, treeEdits,
                             coeffs, samplerVars, impedanceVars >>

\* a setter of a primitive input: React bails out when the value is the same
setSigma0(v) ==
  /\ edits < MaxEdits /\ v # sigma0
  /\ sigma0' = v
  /\ UNCHANGED << playbackVars, selectedId, thrown, model, eps0, tMax, tRemoval, enableRemoval, nPoints, treeEdits >>
  /\ Recompute(Closure(model, tMax, nPoints, v, eps0, tRemoval,
                       enableRemoval), 0)

setEps0(v) ==
  /\ edits < MaxEdits /\ v # eps0
  /\ eps0' = v
  /\ UNCHANGED << playbackVars, selectedId, thrown, model, sigma0, tMax, tRemoval, enableRemoval, nPoints, treeEdits >>
  /\ Recompute(Closure(model, tMax, nPoints, sigma0, v, tRemoval,
                       enableRemoval), 0)

setTMax(v) ==
  /\ edits < MaxEdits /\ v # tMax
  /\ tMax' = v
  /\ UNCHANGED << playbackVars, selectedId, thrown, model, sigma0, eps0, tRemoval, enableRemoval, nPoints, treeEdits >>
  /\ Recompute(Closure(model, v, nPoints, sigma0, eps0, tRemoval,
                       enableRemoval), 0)

\* the input of tRemoval is rendered only while enableRemoval holds
setTRemoval(v) ==
  /\ edits < MaxEdits /\ enableRemoval /\ v # tRemoval
  /\ tRemoval' = v
  /\ UNCHANGED << playbackVars, selectedId, thrown, model, sigma0, eps0, tMax, enableRemoval, nPoints, treeEdits >>
  /\ Recompute(Closure(model, tMax, nPoints, sigma0, eps0, v,
                       enableRemoval), 0)

setEnableRemoval(checked) ==
  /\ edits < MaxEdits /\ checked # enableRemoval
  /\ enableRemoval' = checked
  /\ UNCHANGED << playbackVars, selectedId, thrown, model, sigma0, eps0, tMax, tRemoval, nPoints, treeEdits >>
  /\ Recompute(Closure(model, tMax, nPoints, sigma0, eps0, tRemoval,
                       checked), 0)

\* onChange={(v) => setNPoints(Math.round(v))}
setNPoints(v) ==
  /\ edits < MaxEdits /\ mathRound(v) # nPoints
  /\ nPoints' = mathRound(v)
  /\ UNCHANGED << playbackVars, selectedId, thrown, model, sigma0, eps0, tMax, tRemoval, enableRemoval, treeEdits >>
  /\ Recompute(Closure(model, tMax, nPoints', sigma0, eps0, tRemoval,
                       enableRemoval), 0)

\* the callback of the oldest pending timer runs
TimerFires ==
  /\ timers # <<>>
  /\ LET c == Head(timers)
         rem == IF c.enableRemoval THEN c.tRemoval ELSE Null
         creepData == Run("computeCreep",
                          << c.model, c.tMax, c.nPoints, c.sigma0, rem >>)
         relaxData == Run("computeRelaxation",
                          << c.model, c.tMax, c.nPoints, c.eps0, rem >>)
     IN plotData' = [creep |-> creepData, relax |-> relaxData]
  /\ plotArgs' = Head(timers)
  /\ buf' = Null
  /\ computing' = FALSE
  /\ timers' = Tail(timers)
  /\ idCounter' = idCounter + RenderIds
  /\ UNCHANGED << playbackVars, selectedId, thrown, model, sigma0, eps0, tMax, tRemoval, enableRemoval, nPoints,
                  edits, treeEdits, coeffs, samplerVars, impedanceVars >>

\* a variant whose callback stores the creep series as soon as it is there
tryBlockCreepFirst(prev, c, thrownAt) ==
  LET rem == IF c.enableRemoval THEN c.tRemoval ELSE Null
      creepData == Run("computeCreep",
                       << c.model, c.tMax, c.nPoints, c.sigma0, rem >>)
      relaxData == Run("computeRelaxation",
                       << c.model, c.tMax, c.nPoints, c.eps0, rem >>)
  IN IF thrownAt = "computeCreep" THEN prev
     ELSE IF thrownAt = "computeRelaxation"
       THEN [creep |-> creepData,
             relax |-> IF prev = Null THEN <<>> ELSE prev.relax]
     ELSE [creep |-> creepData, relax |-> relaxData]

\* plotData after try { ... setPlotData({ creep, relax }) } catch (e) { ... }
\* in the callback that closes over c, prev being plotData before it:
\* thrownAt is the call that throws, or "none"
tryBlock(prev, c, thrownAt) ==
  LET rem == IF c.enableRemoval THEN c.tRemoval ELSE Null
      creepData == Run("computeCreep",
                       << c.model, c.tMax, c.nPoints, c.sigma0, rem >>)
      relaxData == Run("computeRelaxation",
                       << c.model, c.tMax, c.nPoints, c.eps0, rem >>)
  IN IF thrownAt = "none" THEN [creep |-> creepData, relax |-> relaxData]
     ELSE prev

\* the callback of the oldest pending timer runs; the engine may refuse a
\* call made by computeCreep or computeRelaxation (RangeError: the call
\* stack or the heap is exhausted), which throws out of it
TimerCallback(thrownAt) ==
  /\ timers # <<>>
  /\ plotData' = tryBlock(plotData, Head(timers), thrownAt)
  /\ plotArgs' = IF thrownAt = "none" THEN Head(timers) ELSE plotArgs
  /\ thrown' = thrownAt
  /\ buf' = Null
  /\ computing' = FALSE
  /\ timers' = Tail(timers)
  /\ idCounter' = idCounter + RenderIds
  /\ UNCHANGED << selectedId, model, sigma0, eps0, tMax, tRemoval,
                  enableRemoval, nPoints, edits, treeEdits, coeffs,
                  samplerVars, impedanceVars, playbackVars >>

\* what the user can do: the values a NumericInput commits are > 0
PresetKeys == DOMAIN PRESETS
GroupsOf(tree) == {n \in NodesOf(tree) : n.type \in {"series", "parallel"}}
Sigma0Inputs == {QInt(1), QInt(2)}
Eps0Inputs == {QInt(1), QInt(3)}
TMaxInputs == {QInt(10), QInt(4)}
TRemovalInputs == {QInt(5), QRat(5, 2)}
NPointsInputs == {QInt(AppPoints), QRat(2 * AppPoints + 1, 2), QRat(2, 5)}
ElementInputs == {QInt(200)}
LeavesOf(tree) == {n \in NodesOf(tree) : n.type \in {"spring", "dashpot"}}
\* texts typed in a parameter field: 200, 0, -5, abc, nothing, 2.5e1,
\* Infinity
TypedTexts ==
  { << "2", "0", "0" >>, << "0" >>, << "-", "5" >>, << "a", "b", "c" >>, << >>,
    << "2", ".", "5", "e", "1" >>, InfinityText }

\* the runs explored: at most MaxEdits edits, MaxTreeEdits of them on the tree
MayEditTree == edits < MaxEdits /\ treeEdits < MaxTreeEdits

NextApp ==
  \/ MayEditTree /\ \E key \in PresetKeys : handlePreset(key)
  \/ MayEditTree /\ \E g \in GroupsOf(model) : handleAddSpring(g.id)
  \/ MayEditTree /\ \E g \in GroupsOf(model) : handleAddDashpot(g.id)
  \/ MayEditTree /\ \E g \in GroupsOf(model) : handleAddSeries(g.id)
  \/ MayEditTree /\ \E g \in GroupsOf(model) : handleAddParallel(g.id)
  \/ MayEditTree /\ \E n \in NodesOf(model) : handleRemove(n.id)
  \/ /\ MayEditTree
     /\ \E n \in NodesOf(model), val \in ElementInputs \cup {QZero} :
          \/ n.type = "spring" /\ handleParamChange(n.id, "E", val)
          \/ n.type = "dashpot" /\ handleParamChange(n.id, "eta", val)
  \/ /\ MayEditTree
     /\ \E g \in GroupsOf(model) :
          handleConvertGroup(g.id, IF g.type = "series" THEN "parallel"
                                   ELSE "series")
  \/ \E v \in Sigma0Inputs : setSigma0(v)
  \/ \E v \in Eps0Inputs : setEps0(v)
  \/ \E v \in TMaxInputs : setTMax(v)
  \/ \E v \in TRemovalInputs : setTRemoval(v)
  \/ setEnableRemoval(~enableRemoval)
  \/ \E v \in NPointsInputs : setNPoints(v)
  \/ TimerFires

SpecApp == InitApp /\ [][NextApp]_vars

(***************************************************************************)
(* SpecEditor: the tree editor of the mounted component.  The handlers of  *)
(* the build and presets tabs are applied one after the other, up to       *)
(* MaxOps of them, each with the render and the effect that follow it;     *)
(* between them the component may render again for a reason that leaves    *)
(* the inputs alone (the info panel is opened or closed), which uses up    *)
(* ids; such renders are explored while _idCounter is less than MaxRenders *)
(* renders above its value after mounting.  The callbacks of the timers    *)
(* are left pending: a callback stores plotData and resets computing, it   *)
(* does not touch the model, and the render it causes advances _idCounter  *)
(* as setShowInfo does.                                                    *)
(***************************************************************************)
MaxOps == 2
MaxRenders == 2
MayOperate == treeEdits < MaxOps

\* setShowInfo(true) or setShowInfo(false): App renders again, and
\* useState(cloneModel(...)) evaluates its argument
setShowInfo ==
  /\ idCounter < 100 + RenderIds * (2 + MaxRenders)
  /\ idCounter' = idCounter + RenderIds
  /\ buf' = Null
  /\ UNCHANGED << playbackVars, selectedId, thrown, model, sigma0, eps0, tMax, tRemoval, enableRemoval, nPoints,
                  plotData, plotArgs, computing, timers, edits, treeEdits,
                  coeffs, samplerVars, impedanceVars >>

\* onClick of a row of the tree view or of an element of the schematic:
\* setSelectedId(node.id), and the render that follows
selectNode(id) ==
  /\ id # selectedId
  /\ idCounter < 100 + RenderIds * (2 + MaxRenders)
  /\ selectedId' = id
  /\ idCounter' = idCounter + RenderIds
  /\ buf' = Null
  /\ UNCHANGED << model, sigma0, eps0, tMax, tRemoval, enableRemoval, nPoints,
                  plotData, plotArgs, computing, timers, edits, treeEdits,
                  thrown, coeffs, samplerVars, impedanceVars, playbackVars >>

NextEditor ==
  \/ MayOperate /\ \E key \in PresetKeys : handlePreset(key)
  \/ MayOperate /\ \E g \in GroupsOf(model) : handleAddSpring(g.id)
  \/ MayOperate /\ \E g \in GroupsOf(model) : handleAddDashpot(g.id)
  \/ MayOperate /\ \E g \in GroupsOf(model) : handleAddSeries(g.id)
  \/ MayOperate /\ \E g \in GroupsOf(model) : handleAddParallel(g.id)
  \/ MayOperate /\ \E n \in NodesOf(model) : handleRemove(n.id)
  \/ \E n \in LeavesOf(model), text \in TypedTexts : handleChange(n.id, text)
  \/ MayOperate /\ commit
  \/ /\ MayOperate
     /\ \E g \in GroupsOf(model) :
          handleConvertGroup(g.id, IF g.type = "series" THEN "parallel"
                                   ELSE "series")
  \/ setShowInfo

SpecEditor == InitApp /\ [][NextEditor]_vars

(***************************************************************************)
(* SpecFailure: the mounted component with edits of the magnitudes and of  *)
(* the removal switch, and callbacks that return or throw.                 *)
(***************************************************************************)
Outcomes == {"none", "computeCreep", "computeRelaxation"}

NextFailure ==
  \/ \E v \in Sigma0Inputs : setSigma0(v)
  \/ \E v \in Eps0Inputs : setEps0(v)
  \/ setEnableRemoval(~enableRemoval)
  \/ \E thrownAt \in Outcomes : TimerCallback(thrownAt)

SpecFailure == InitApp /\ [][NextFailure]_vars

(***************************************************************************)
(* SpecSelection: the build tab as the user drives it.  A click selects a  *)
(* node; the buttons of the panel call the handlers with the selected id   *)
(* (the add buttons and the convert button are shown for a group, the      *)
(* parameter field for a leaf); handleRemove is called on any id, the id   *)
(* of the root included, although the panel hides its button when the root *)
(* is selected.  Up to MaxOps handlers that store a tree are applied.       *)
(***************************************************************************)
SelectedNode == {n \in NodesOf(model) : n.id = selectedId}

NextSelection ==
  \/ \E n \in NodesOf(model) : selectNode(n.id)
  \/ MayOperate /\ \E key \in PresetKeys : handlePreset(key)
  \/ MayOperate /\ \E g \in SelectedNode \cap GroupsOf(model) :
       \/ handleAddSpring(g.id)
       \/ handleAddDashpot(g.id)
       \/ handleAddSeries(g.id)
       \/ handleAddParallel(g.id)
       \/ handleConvertGroup(g.id, IF g.type = "series" THEN "parallel"
                                   ELSE "series")
  \/ MayOperate /\ \E n \in NodesOf(model) : handleRemove(n.id)
  \/ /\ MayOperate
     /\ \E n \in SelectedNode \cap LeavesOf(model), val \in ElementInputs :
          handleParamChange(n.id, IF n.type = "spring" THEN "E" ELSE "eta", val)

SpecSelection == InitApp /\ [][NextSelection]_vars

(***************************************************************************)
(* SpecPlayback: the component AnimatedSchematic of main.jsx.  It is given *)
(* a creep and a relaxation series (of 0 .. MaxSeries points each), shows  *)
(* one of them behind PRE_LOAD_FRAMES frames of rest, and plays the frames *)
(* one per tick.  A tick is a callback of requestAnimationFrame that finds *)
(* 1000 / (30 * speed) ms elapsed since the last one; the callbacks in     *)
(* between change nothing.  The effect of lines 366-367 has run: after the *)
(* mount and after every change of the series, playing is false and        *)
(* frameIndex is -1.                                                       *)
(***************************************************************************)
MaxSeries == 3
PRE_LOAD_FRAMES == 8

\* a series of n sampled points (small integers stand for the numbers)
SeriesOf(n) == [k \in 1 .. n |-> Point(k - 1, k, 1)]
SeriesInputs == {SeriesOf(n) : n \in 0 .. MaxSeries}

\* const data = animMode === "creep" ? creepData : relaxData
dataOf(p, mode) == IF mode = "creep" THEN p.creepData ELSE p.relaxData

\* the frames before the load: t from -0.5 towards 0 in PRE_LOAD_FRAMES
\* steps, t being the fraction << numerator, denominator >> (toFixed(4)
\* keeps these multiples of 1/16 as they are)
preFrames ==
  [i \in 1 .. PRE_LOAD_FRAMES |->
     Point(<< i - 1 - PRE_LOAD_FRAMES, 2 * PRE_LOAD_FRAMES >>, 0, 0)]

\* augmentedData
augmentedData(data) == IF data = <<>> THEN <<>> ELSE preFrames \o data

\* const totalFrames = augmentedData.length
totalFrames == Len(augmentedData(dataOf(props, animMode)))

InitPlayback ==
  /\ \E c \in SeriesInputs, r \in SeriesInputs :
       props = [creepData |-> c, relaxData |-> r]
  /\ animMode = "creep"
  /\ playing = FALSE
  /\ frameIndex = -1
  /\ interrupted = FALSE
  /\ coeffs = stehfestCoeffs(STEHFEST_N)
  /\ SamplerIdle /\ ImpedanceIdle /\ AppStateIdle

\* the other variables of the module
besidesPlayback ==
  << callArgs, callFn, callResult, zNode, zFreq, zResult, model, sigma0, eps0,
     tMax, tRemoval, enableRemoval, nPoints, plotData, computing, timers,
     idCounter, edits, treeEdits, coeffs, plotArgs, buf, selectedId, thrown >>

\* the Play button, shown while playing is false
handlePlay ==
  /\ ~playing
  /\ frameIndex' = IF frameIndex >= totalFrames - 1 \/ frameIndex < 0 THEN 0
                   ELSE frameIndex
  /\ playing' = TRUE
  /\ interrupted' = FALSE
  /\ UNCHANGED << props, animMode, besidesPlayback >>

\* a variant that shows the last frame and goes on playing
nextFrameNoStop(prev, total) ==
  LET next == IF prev < 0 THEN 0 ELSE prev + 1
  IN IF next >= total THEN [frameIndex |-> total - 1, stop |-> FALSE]
     ELSE [frameIndex |-> next, stop |-> FALSE]

\* the updater handed to setFrameIndex: the new frameIndex, and whether it
\* calls setPlaying(false)
nextFrame(prev, total) ==
  LET next == IF prev < 0 THEN 0 ELSE prev + 1
  IN IF next >= total THEN [frameIndex |-> total - 1, stop |-> TRUE]
     ELSE [frameIndex |-> next, stop |-> FALSE]

\* a tick of the animation loop, which runs while playing with frames
Tick ==
  /\ playing /\ totalFrames # 0
  /\ LET r == nextFrame(frameIndex, totalFrames)
     IN /\ frameIndex' = r.frameIndex
        /\ playing' = IF r.stop THEN FALSE ELSE playing
  /\ UNCHANGED << props, animMode, interrupted, besidesPlayback >>

\* the Pause button, shown while playing
handlePause ==
  /\ playing
  /\ playing' = FALSE
  /\ interrupted' = TRUE
  /\ UNCHANGED << props, animMode, frameIndex, besidesPlayback >>

handleReset ==
  /\ playing' = FALSE
  /\ frameIndex' = -1
  /\ interrupted' = TRUE
  /\ UNCHANGED << props, animMode, besidesPlayback >>

\* the slider, min 0 and max Math.max(0, totalFrames - 1)
handleScrub(v) ==
  /\ frameIndex' = v
  /\ playing' = FALSE
  /\ interrupted' = TRUE
  /\ UNCHANGED << props, animMode, besidesPlayback >>

\* the Creep and Relax buttons
setAnimMode(mode) ==
  /\ animMode' = mode
  /\ playing' = FALSE
  /\ frameIndex' = -1
  /\ interrupted' = TRUE
  /\ UNCHANGED << props, besidesPlayback >>

\* the parent hands over a new model or new series (the series may be equal
\* to the ones before when only the model changed); the effect of lines
\* 366-367 resets
NewData(c, r) ==
  /\ props' = [creepData |-> c, relaxData |-> r]
  /\ playing' = FALSE
  /\ frameIndex' = -1
  /\ interrupted' = TRUE
  /\ UNCHANGED << animMode, besidesPlayback >>

NextPlayback ==
  \/ handlePlay
  \/ Tick
  \/ handlePause
  \/ handleReset
  \/ \E v \in 0 .. (IF totalFrames > 0 THEN totalFrames - 1 ELSE 0) :
       handleScrub(v)
  \/ \E mode \in {"creep", "relax"} : setAnimMode(mode)
  \/ \E c \in SeriesInputs, r \in SeriesInputs : NewData(c, r)

\* requestAnimationFrame keeps calling back while the loop runs
SpecPlayback == InitPlayback /\ [][NextPlayback]_vars /\ WF_vars(Tick)

(***************************************************************************)
(* Reference quantities of the claims about the sampler, stated on the     *)
(* arguments of the call: the grid t_i = (i / nPoints) * tMax, the step    *)
(* that straddles the unload time t1, and the base response R.  Every      *)
(* field of an emitted point is rounded to 6 decimals, so the claims       *)
(* compare the emitted t and value with the rounded reference.             *)
(***************************************************************************)
CallDone == callFn \in {"computeCreep", "computeRelaxation"}
Unloads == callArgs.tRemoval # Null
GridTime(i) == QMul(QDiv(QInt(i), QInt(callArgs.nPoints)), callArgs.tMax)
Straddles(i) ==
  /\ Unloads /\ i >= 1
  /\ QLt(GridTime(i - 1), callArgs.tRemoval)
  /\ QLe(callArgs.tRemoval, GridTime(i))
CrossingSteps == {i \in 1 .. callArgs.nPoints : Straddles(i)}
NearNode(i) ==
  QLt(QAbs(QSub(GridTime(i), callArgs.tRemoval)),
      QDiv(QDiv(callArgs.tMax, QInt(callArgs.nPoints)), QInt(2)))
UnloadInside ==
  /\ Unloads
  /\ QLt(QZero, callArgs.tRemoval) /\ QLt(callArgs.tRemoval, callArgs.tMax)
BaseResponse(t) ==
  IF callFn = "computeCreep"
    THEN creepAtTime(callArgs.model, t, callArgs.magnitude)
  ELSE relaxAtTime(callArgs.model, t, callArgs.magnitude)
\* the regular point of grid step i as the claims describe it
RegularPoint(i) ==
  LET t == GridTime(i)
  IN IF Unloads /\ QGt(t, callArgs.tRemoval)
       THEN Point(toFixed6(t),
                  VFixed6(VSub(BaseResponse(t),
                               BaseResponse(QSub(t, callArgs.tRemoval)))),
                  QZero)
     ELSE Point(toFixed6(t), VFixed6(BaseResponse(t)), callArgs.magnitude)
\* where the regular point of step i stands in the output: after the regular
\* points of the steps before it and after the pair of a crossing step j <= i
RegularIndex(i) ==
  i + 1 + (IF \E j \in CrossingSteps : j <= i THEN 2 ELSE 0)
        - (IF \E j \in CrossingSteps : j < i /\ NearNode(j) THEN 1 ELSE 0)
Emitted(i) == ~(i \in CrossingSteps /\ NearNode(i))

\* C1: with unload at t1, every regular grid point the sampler emits with
\* t <= t1 has value R(t) and the full load, and every regular grid point
\* with t > t1 has value R(t) - R(t - t1) and load 0 (values rounded to 6
\* decimals as emitted).
C1_RegularPointsSuperposed ==
  (CallDone /\ Unloads) =>
    \A i \in 0 .. callArgs.nPoints :
      Emitted(i) =>
        /\ RegularIndex(i) \in DOMAIN callResult
        /\ LET p == callResult[RegularIndex(i)]
               t == GridTime(i)
           IN IF QLe(t, callArgs.tRemoval)
                THEN /\ p.value = VFixed6(BaseResponse(t))
                     /\ p.load = callArgs.magnitude
              ELSE /\ p.value =
                        VFixed6(VSub(BaseResponse(t),
                                     BaseResponse(QSub(t, callArgs.tRemoval))))
                   /\ p.load = QZero

\* a call with an unload inside the window returned regular points on both
\* sides of t1, the later ones superposed and unloaded
C1_Witness ==
  /\ CallDone /\ UnloadInside
  /\ \E i, j \in 0 .. callArgs.nPoints :
       /\ Emitted(i) /\ Emitted(j)
       /\ QLe(GridTime(i), callArgs.tRemoval)
       /\ QGt(GridTime(j), callArgs.tRemoval)
       /\ callResult[RegularIndex(i)].load = callArgs.magnitude
       /\ callResult[RegularIndex(j)].load = QZero
       /\ callResult[RegularIndex(j)].value.op = "fix6"

\* the synthetic pair of crossing step i, with the given instantaneous drop
PairAt(i, drop) ==
  /\ i + 2 \in DOMAIN callResult
  /\ callResult[i + 1] =
       Point(toFixed6(callArgs.tRemoval),
             VFixed6(BaseResponse(callArgs.tRemoval)), callArgs.magnitude)
  /\ callResult[i + 2] =
       Point(toFixed6(callArgs.tRemoval),
             VFixed6(VSub(BaseResponse(callArgs.tRemoval), Num(drop))), QZero)

InstantProbe == impedance(callArgs.model, QSci(1, 15))
StatedDrop ==
  IF callFn = "computeCreep" THEN QDiv(callArgs.magnitude, InstantProbe)
  ELSE QMul(callArgs.magnitude, InstantProbe)
GuardedDrop ==
  IF callFn = "computeCreep" /\ QEq(InstantProbe, QZero) THEN QZero
  ELSE StatedDrop

\* C2 as stated: at the step that straddles t1 the two injected points are
\* stamped t1, the first with value R(t1) and the full load, the second with
\* value R(t1) - instantDrop and load 0, instantDrop = sigma0 / Z(1e15) for
\* creep and eps0 * Z(1e15) for relaxation.
C2_PairAsStated ==
  CallDone => \A i \in CrossingSteps : PairAt(i, StatedDrop)

\* C2, amended: the same, with instantDrop = 0 for creep when Z(1e15) is 0
\* (the guard of instantElasticStrain), sigma0 / Z(1e15) otherwise.
C2_PairWithGuardedDrop ==
  CallDone => \A i \in CrossingSteps : PairAt(i, GuardedDrop)

\* a relaxation call on a tree with a dashpot crossed t1: the drop probed at
\* 1e15 differs from the value probed at 1e12
C2_Witness ==
  /\ callFn = "computeRelaxation" /\ CrossingSteps # {}
  /\ callArgs.model = PresetMaxwell
  /\ impedance(callArgs.model, QSci(1, 12)) # InstantProbe
  /\ \E i \in CrossingSteps : callResult[i + 2].load = QZero

\* C3: for 0 < t1 < tMax exactly one grid step i has t_(i-1) < t1 <= t_i, and
\* the output is the regular points of the steps before i, then exactly two
\* synthetic points next to each other, then the regular points of the steps
\* from i (or i + 1) on; with tRemoval null, t1 <= 0 or t1 > tMax the output
\* is the regular points alone.
C3_ExactlyOneSyntheticPair ==
  CallDone =>
    LET n == callArgs.nPoints
        len == Len(callResult)
        t1 == callArgs.tRemoval
    IN /\ UnloadInside =>
            /\ Cardinality(CrossingSteps) = 1
            /\ \A i \in CrossingSteps :
                 /\ len - (i + 2) \in {n - i, n - i + 1}
                 /\ \A j \in 0 .. i - 1 :
                      callResult[j + 1].t = toFixed6(GridTime(j))
                 /\ callResult[i + 1].t = toFixed6(t1)
                 /\ callResult[i + 1].load = callArgs.magnitude
                 /\ callResult[i + 2].t = toFixed6(t1)
                 /\ callResult[i + 2].load = QZero
                 /\ \A k \in i + 3 .. len :
                      /\ callResult[k].t = toFixed6(GridTime(n - (len - k)))
                      /\ callResult[k].load = QZero
       /\ (~Unloads \/ QLe(t1, QZero) \/ QGt(t1, callArgs.tMax)) =>
            /\ CrossingSteps = {}
            /\ len = n + 1
            /\ \A j \in 0 .. n : callResult[j + 1].t = toFixed6(GridTime(j))

\* a call with 0 < t1 < tMax returned the pair at a step that has regular
\* points before and after it
C3_Witness ==
  /\ CallDone /\ UnloadInside
  /\ \E i \in CrossingSteps :
       /\ 1 < i /\ i < callArgs.nPoints
       /\ callResult[i + 1].t = callResult[i + 2].t
       /\ callResult[i + 1].load # callResult[i + 2].load

\* C4: at the crossing step the regular point of t_i is omitted iff
\* |t_i - t1| < (tMax / nPoints) / 2 and otherwise follows the pair; the
\* output has nPoints + 2 points when it is omitted and nPoints + 3
\* otherwise; when t1 is a grid node the pair replaces that grid point.
C4_SuppressionRule ==
  CallDone =>
    \A i \in CrossingSteps :
      LET n == callArgs.nPoints
      IN /\ Len(callResult) = IF NearNode(i) THEN n + 2 ELSE n + 3
         /\ ~NearNode(i) => callResult[i + 3] = RegularPoint(i)
         /\ (NearNode(i) /\ i < n) => callResult[i + 3] = RegularPoint(i + 1)
         /\ QEq(callArgs.tRemoval, GridTime(i)) =>
              /\ NearNode(i)
              /\ callResult[i].t = toFixed6(GridTime(i - 1))
              /\ callResult[i + 1].t = toFixed6(GridTime(i))
              /\ callResult[i + 2].t = toFixed6(GridTime(i))

\* one call with t1 exactly half a step before the node (the point is kept)
C4_Witness ==
  /\ CallDone /\ UnloadInside
  /\ \E i \in CrossingSteps :
       /\ ~NearNode(i)
       /\ QEq(QSub(GridTime(i), callArgs.tRemoval),
              QDiv(QDiv(callArgs.tMax, QInt(callArgs.nPoints)), QInt(2)))
       /\ Len(callResult) = callArgs.nPoints + 3

\* C5: the t field never decreases from one emitted point to the next, for
\* every tRemoval (null, inside (0, tMax), on a grid node, <= 0, >= tMax).
C5_TimeMonotonic ==
  CallDone =>
    \A k \in 1 .. Len(callResult) - 1 :
      QLe(callResult[k].t, callResult[k + 1].t)

\* a call whose output holds the synthetic pair between regular points
C5_Witness ==
  /\ CallDone /\ Unloads
  /\ \E i \in CrossingSteps :
       /\ i < callArgs.nPoints
       /\ QLt(callResult[i].t, callResult[i + 1].t)
       /\ QEq(callResult[i + 1].t, callResult[i + 2].t)
       /\ QLt(callResult[i + 2].t, callResult[i + 3].t)

\* C6: with tRemoval = null the sampler returns exactly nPoints + 1 points,
\* the i-th with t = (i / nPoints) * tMax rounded to 6 decimals, value R(t_i)
\* rounded to 6 decimals and the full load.
C6_NoRemovalSeries ==
  (CallDone /\ ~Unloads) =>
    /\ Len(callResult) = callArgs.nPoints + 1
    /\ \A i \in 0 .. callArgs.nPoints :
         callResult[i + 1] =
           Point(toFixed6(GridTime(i)), VFixed6(BaseResponse(GridTime(i))),
                 callArgs.magnitude)

\* a call without unload on a grid of several points
C6_Witness ==
  /\ CallDone /\ ~Unloads
  /\ callArgs.nPoints >= 3
  /\ Len(callResult) = callArgs.nPoints + 1
  /\ callResult[Len(callResult)].t = toFixed6(callArgs.tMax)

\* x is the multiple of 1e-6 nearest to u (either of the two at a tie)
Nearest6(x, u) ==
  /\ IsFin(x) /\ QMul(x, QSci(1, 6)).d = <<1>>
  /\ QLe(QMul(QAbs(QSub(x, u)), QInt(2)), QSci(1, -6))
\* the unrounded times of the points: the grid times and the unload time
RawTimes ==
  {GridTime(i) : i \in 0 .. callArgs.nPoints} \cup
  (IF Unloads THEN {callArgs.tRemoval} ELSE {})

BaseProbe == impedance(callArgs.model, QSci(1, 12))

\* C12: for t <= 0 creepAtTime returns sigma0 / Z(1e12), or 0 when Z(1e12) is
\* 0, and relaxAtTime returns eps0 * Z(1e12); the result is that number, no
\* inverse transform is taken.
C12_BaseValueAtProbe ==
  /\ (callFn = "creepAtTime" /\ QLe(callArgs.t, QZero)) =>
       callResult = Num(IF QEq(BaseProbe, QZero) THEN QZero
                        ELSE QDiv(callArgs.magnitude, BaseProbe))
  /\ (callFn = "relaxAtTime" /\ QLe(callArgs.t, QZero)) =>
       callResult = Num(QMul(callArgs.magnitude, BaseProbe))

\* creepAtTime was called at a time below 0 on a tree with a dashpot, where
\* the probes at 1e12 and at 1e15 differ
C12_Witness ==
  /\ callFn = "creepAtTime" /\ QLt(callArgs.t, QZero)
  /\ callArgs.model = PresetMaxwell
  /\ BaseProbe # impedance(callArgs.model, QSci(1, 15))
  /\ callResult = Num(QDiv(callArgs.magnitude, BaseProbe))
  /\ QGt(callResult.q, QZero)

(***************************************************************************)
(* Reference quantities of the claims about impedance.                     *)
(***************************************************************************)
Evaluated == zResult # Null
ChildZ(k) == impedance(zNode.children[k], zFreq)
IsShort(k) == QLt(QAbs(ChildZ(k)), QSci(1, -30))
RECURSIVE SumTo(_, _)
SumTo(f, k) == IF k = 0 THEN QZero ELSE QAdd(SumTo(f, k - 1), f[k])
RECURSIVE CallsTo(_)
\* the calls made for the children 1 .. k of the node, in order
CallsTo(k) ==
  IF k = 0 THEN <<>>
  ELSE CallsTo(k - 1) \o impedanceEval(zNode.children[k], zFreq).calls

\* C9: impedance(node, s) is E for a spring, eta * s for a dashpot, the sum of
\* the children's impedances for a parallel node, the Z with
\* 1/Z = sum of 1/Z_child for a series node whose children all have an
\* impedance of magnitude >= 1e-30, and 0 for a node of any other type.
C9_ImpedanceReference ==
  Evaluated =>
    LET z == zResult.z
    IN CASE zNode.type = "spring" -> z = zNode.E
         [] zNode.type = "dashpot" -> z = QMul(zNode.eta, zFreq)
         [] zNode.type = "parallel" ->
              z = SumTo([k \in 1 .. Len(zNode.children) |-> ChildZ(k)],
                        Len(zNode.children))
         [] zNode.type = "series" ->
              (\A k \in 1 .. Len(zNode.children) : ~IsShort(k)) =>
                QDiv(QInt(1), z) =
                  SumTo([k \in 1 .. Len(zNode.children) |->
                           QDiv(QInt(1), ChildZ(k))],
                        Len(zNode.children))
         [] OTHER -> z = QZero

\* a series node of two groups, none of them a short, was evaluated
C9_Witness ==
  /\ Evaluated /\ zNode.type = "series" /\ Len(zNode.children) = 2
  /\ \A k \in 1 .. 2 :
       /\ zNode.children[k].type \in {"series", "parallel"}
       /\ Len(zNode.children[k].children) = 2
       /\ ~IsShort(k)
  /\ IsFin(zResult.z) /\ QGt(zResult.z, QZero)

\* C10: a series node returns exactly 0 as soon as it meets, in child order,
\* a child whose impedance has magnitude below 1e-30: the calls it made are
\* those for the children up to that one, none for the children after it.
C10_SeriesShortCircuit ==
  (Evaluated /\ zNode.type = "series") =>
    \A k \in 1 .. Len(zNode.children) :
      (IsShort(k) /\ \A j \in 1 .. k - 1 : ~IsShort(j)) =>
        /\ zResult.z = QZero
        /\ zResult.calls = <<zNode>> \o CallsTo(k)

\* a series node whose first child is a short and whose second child is not:
\* the second child was never evaluated
C10_Witness ==
  /\ Evaluated /\ zNode.type = "series" /\ Len(zNode.children) = 2
  /\ IsShort(1) /\ ~IsShort(2)
  /\ zNode.children[1].type = "parallel"
  /\ zResult.z = QZero
  /\ \A c \in 1 .. Len(zResult.calls) : zResult.calls[c] # zNode.children[2]

\* the sum of the reciprocals of the children's impedances
ComplianceSum ==
  SumTo([k \in 1 .. Len(zNode.children) |-> QDiv(QInt(1), ChildZ(k))],
        Len(zNode.children))
NoShort == \A k \in 1 .. Len(zNode.children) : ~IsShort(k)

\* C11: a series node none of whose children short-circuits and whose
\* compliance sum is exactly 0 (no child at all, or children of infinite
\* impedance) returns +Infinity; every impedance the loop divides by is
\* different from 0, and the sum is divided by only when it is not 0.
C11_RigidSeries ==
  (Evaluated /\ zNode.type = "series" /\ NoShort) =>
    /\ \A k \in 1 .. Len(zNode.children) : ~QEq(ChildZ(k), QZero)
    /\ IF QEq(ComplianceSum, QZero) THEN zResult.z = Infinity
       ELSE zResult.z = QDiv(QInt(1), ComplianceSum)

\* a series node of two rigid children (empty series groups) was evaluated
C11_Witness ==
  /\ Evaluated /\ zNode.type = "series" /\ Len(zNode.children) = 2
  /\ NoShort
  /\ \A k \in 1 .. 2 : ChildZ(k) = Infinity
  /\ QEq(ComplianceSum, QZero)
  /\ zResult.z = Infinity

(***************************************************************************)
(* Reference quantities of the claims about App.                           *)
(***************************************************************************)
Inputs == << model, tMax, nPoints, sigma0, eps0, tRemoval, enableRemoval >>
\* the two series computed from a model and parameters
ResultFor(m, tm, np, s0, e0, tr, en) ==
  [creep |-> computeCreep(m, tm, np, s0, IF en THEN tr ELSE Null),
   relax |-> computeRelaxation(m, tm, np, e0, IF en THEN tr ELSE Null)]
\* the two series computed from the current model and parameters
CurrentResult ==
  ResultFor(model, tMax, nPoints, sigma0, eps0, tRemoval, enableRemoval)

\* C7: last-writer-wins: the result of a computation scheduled before the
\* latest change of the model or of a parameter is never stored: whenever
\* plotData changes, its new value is the result for the inputs of that
\* moment.
C7_StaleResultNeverStored ==
  [][plotData' # plotData =>
       plotData' = ResultFor(model', tMax', nPoints', sigma0', eps0', tRemoval',
                             enableRemoval')]_vars

\* C8: every change of the model or of a parameter sets a timer for a
\* computation on the new inputs, and when no timer is pending plotData holds
\* the creep and relaxation series of the current model and parameters.
C8_EditsRecompute ==
  /\ [][Inputs' # Inputs =>
          /\ timers' = Append(timers, Closure(model', tMax', nPoints', sigma0',
                                              eps0', tRemoval', enableRemoval'))
          /\ computing']_vars
  /\ [](timers = <<>> => plotData = CurrentResult)

\* after edits of the tree and of a parameter every timer has fired
C8_Witness ==
  /\ edits = MaxEdits /\ timers = <<>>
  /\ model # cloneModel(PRESETS.std3maxwell, 100)
  /\ sigma0 # QInt(1)
  /\ plotData # Null /\ ~computing

\* a call of the solver, in the current state, on the inputs plotData was
\* computed from
Replay ==
  ResultFor(plotArgs.model, plotArgs.tMax, plotArgs.nPoints, plotArgs.sigma0,
            plotArgs.eps0, plotArgs.tRemoval, plotArgs.enableRemoval)

C15_GroupsNonEmpty == \A g \in GroupsOf(model) : Len(g.children) >= 1

\* the ids of a tree
IdsOf(tree) == {n.id : n \in NodesOf(tree)}

\* C17: after any sequence of preset loads, adds (the series-arm and
\* parallel-arm adds create three nodes at once), removals and conversions,
\* no two nodes of the model have the same id: the tree has as many ids as
\* nodes.
C17_IdsUnique == Cardinality(IdsOf(model)) = NodeCount(model)

\* two arms were added to the mounted model, six new nodes
C17_Witness ==
  /\ treeEdits = 2
  /\ NodeCount(model) = NodeCount(PRESETS.std3maxwell) + 6
  /\ Cardinality({g \in GroupsOf(model) : g.type = "series"}) >= 2
  /\ Cardinality({g \in GroupsOf(model) : g.type = "parallel"}) >= 2

\* a text whose value is <= 0 or is no number
Refused(text) ==
  LET num == DecimalLiteral(text) IN IsNaN(num) \/ QLe(num, QZero)

\* C18: after any sequence of editor operations every spring has E > 0 and
\* every dashpot has eta > 0, and committing a parameter text whose value is
\* <= 0 or that is no number leaves the model unchanged.
C18_PositiveParameters ==
  /\ [](\A n \in LeavesOf(model) :
          IF n.type = "spring" THEN QGt(n.E, QZero) ELSE QGt(n.eta, QZero))
  /\ [][(buf # Null /\ Refused(buf.text) /\ commit) => model' = model]_vars

\* a parameter was changed by a commit, and after another edit a text that
\* is to be refused has been typed in the field of a leaf
C18_Witness ==
  /\ buf # Null /\ Refused(buf.text)
  /\ treeEdits >= 1
  /\ \E n \in LeavesOf(model) :
       n.type = "dashpot" /\ n.eta \in {QInt(200), QInt(25), Infinity}

(***************************************************************************)
(* Claims about the arguments App passes to the solver.                    *)
(***************************************************************************)
IsInteger(x) == IsFin(x) /\ x.d = <<1>>
\* the argument tRemoval of the last call of the solver
LastRem == IF plotArgs.enableRemoval THEN plotArgs.tRemoval ELSE Null

\* C16: at every call of computeCreep and computeRelaxation made by App,
\* after any sequence of edits through the parameter inputs, sigma0 > 0,
\* eps0 > 0, tMax > 0, nPoints is an integer >= 1, and tRemoval is null or
\* strictly between 0 and tMax.
C16_ArgumentsInDomain ==
  plotArgs # Null =>
    /\ QGt(plotArgs.sigma0, QZero)
    /\ QGt(plotArgs.eps0, QZero)
    /\ QGt(plotArgs.tMax, QZero)
    /\ IsInteger(plotArgs.nPoints) /\ QGe(plotArgs.nPoints, QInt(1))
    /\ \/ LastRem = Null
       \/ QLt(QZero, LastRem) /\ QLt(LastRem, plotArgs.tMax)

(***************************************************************************)
(* Claims about the Maxwell model: the sampler's values with the Stehfest  *)
(* sums evaluated.                                                         *)
(***************************************************************************)
\* |v - expected| <= 1e-3 * |expected|
WithinTolerance(v, expected) ==
  QLe(QAbs(QSub(v, expected)), QMul(QSci(1, -3), QAbs(expected)))

\* computeCreep was called on Series(Spring(100), Dashpot(50)) with
\* sigma0 = 1, tMax = 10 and no removal
MaxwellScenario ==
  /\ callFn = "computeCreep"
  /\ callArgs.model = PresetMaxwell
  /\ callArgs.magnitude = QInt(1)
  /\ callArgs.tMax = QInt(10)
  /\ callArgs.tRemoval = Null

\* sigma0 * (1 / E + t / eta) for E = 100, eta = 50
MaxwellClosedForm(sig0, t) ==
  QMul(sig0, QAdd(QRat(1, 100), QDiv(t, QInt(50))))

\* C19: for the Maxwell model (E = 100, eta = 50) with sigma0 = 1, tMax = 10
\* and no removal the first point of computeCreep has the value 0.01
\* exactly, the last one (t = 10) is within 1e-3 of 0.21 (relative), and
\* every value is within 1e-3 (relative) of sigma0 * (1 / E + t / eta).
C19_MaxwellCreep ==
  MaxwellScenario =>
    LET V == stehfestArray(coeffs)
        last == callResult[Len(callResult)]
    IN /\ callResult[1].value = Num(QRat(1, 100))
       /\ last.t = QInt(10)
       /\ Len(V) = STEHFEST_N
       /\ \A k \in 1 .. Len(callResult) :
            LET strain == NumberOf(callResult[k].value, V)
            IN /\ IsFin(strain)
               /\ k = Len(callResult) => WithinTolerance(strain, QRat(21, 100))
               /\ WithinTolerance(strain,
                                  MaxwellClosedForm(QInt(1), callResult[k].t))

\* the call was made with the largest number of steps explored
C19_Witness ==
  /\ MaxwellScenario
  /\ callArgs.nPoints = MaxPoints
  /\ Len(callResult) = MaxPoints + 1
  /\ callResult[MaxPoints + 1].value.op = "fix6"

(***************************************************************************)
(* Unload of the Maxwell model.                                            *)
(***************************************************************************)
\* computeCreep was called on Series(Spring(100), Dashpot(50)) with the load
\* removed at a time inside (0, tMax)
MaxwellUnload ==
  /\ callFn = "computeCreep"
  /\ callArgs.model = PresetMaxwell
  /\ UnloadInside

\* sigma0 * t1 / eta for eta = 50: the strain the dashpot keeps
MaxwellPlateau == QDiv(QMul(callArgs.magnitude, callArgs.tRemoval), QInt(50))

\* the points emitted with load 0
AfterUnload == {k \in 1 .. Len(callResult) : callResult[k].load = QZero}

\* C20: for the Maxwell model with unload at t1 in (0, tMax), every creep
\* point emitted after the unload (load 0, the second synthetic point
\* included) has a strain that is not zero and lies at the plateau
\* sigma0 * t1 / eta (within 1e-3, relative): recovery is partial.
C20_PartialRecovery ==
  MaxwellUnload =>
    LET V == stehfestArray(coeffs)
    IN /\ Len(V) = STEHFEST_N
       /\ \A k \in AfterUnload :
            LET strain == NumberOf(callResult[k].value, V)
            IN /\ strain # QZero
               /\ WithinTolerance(strain, MaxwellPlateau)

(***************************************************************************)
(* The transform of the unit step.                                         *)
(***************************************************************************)
\* creepAtTime was called at t > 0 on the lone spring of stiffness 1 with
\* sigma0 = 1: the function it hands to inverseLaplace is F(s) = 1 / s
UnitStep ==
  /\ callFn = "creepAtTime"
  /\ callArgs.model = UnitSpring
  /\ callArgs.magnitude = QInt(1)
  /\ QGt(callArgs.t, QZero)

RECURSIVE WeightSum(_, _, _)
\* V[i] / i summed from index i on, in the arithmetic of the code
WeightSum(V, i, sum) ==
  IF i > Len(V) \/ sum.k = "nan" THEN sum
  ELSE WeightSum(V, i + 1, DAdd(sum, DDiv(V[i], DoubleOf(QInt(i)))))

\* C21: inverseLaplace applied to F(s) = 1 / s returns 1 (within 1e-3,
\* relative) at every t > 0, whatever t; the Stehfest weights satisfy
\* sum of V_i / i = 1 (within the same tolerance).
C21_UnitStepInverts ==
  UnitStep =>
    LET V == stehfestArray(coeffs)
        x == NumberOf(callResult, V)
    IN /\ callResult.op = "ilt"
       /\ Len(V) = STEHFEST_N
       /\ IsFin(x)
       /\ WithinTolerance(x, QInt(1))
       /\ WithinTolerance(RationalOf(WeightSum(V, 1, DZero)), QInt(1))

\* the unit step was inverted at t = 7/3, where ln2 / t is not a dyadic
\* multiple of ln2
C21_Witness ==
  /\ UnitStep
  /\ callArgs.t = QRat(7, 3)
  /\ callResult.op = "ilt"
  /\ callResult.F = [fn |-> "creep", model |-> UnitSpring, mag |-> QInt(1)]
  /\ callResult.V = stehfestCoeffs(STEHFEST_N)

(***************************************************************************)
(* Grid points near the unload.                                            *)
(***************************************************************************)
\* where the synthetic pair stands in the output
PairIndices == UNION {{j + 1, j + 2} : j \in CrossingSteps}

\* the grid steps whose regular point is in the output: all of them when
\* the output holds nPoints + 1 points besides the pair, all but the
\* crossing step otherwise
EmittedSteps ==
  IF Len(callResult) - Cardinality(PairIndices) = callArgs.nPoints + 1
    THEN 0 .. callArgs.nPoints
  ELSE (0 .. callArgs.nPoints) \ CrossingSteps

\* C22 as stated: with unload at t1 in (0, tMax) every regular grid point
\* that is emitted lies at least half a grid step, (tMax / nPoints) / 2,
\* away from t1.
C22_NoGridPointNearUnload ==
  (CallDone /\ UnloadInside) =>
    \A i \in EmittedSteps :
      /\ callResult[RegularIndex(i)].t = toFixed6(GridTime(i))
      /\ ~NearNode(i)

\* C22 amended: with unload at t1 in (0, tMax) every regular grid point
\* emitted at or after t1 lies at least half a grid step away from t1; the
\* grid points before t1 are all emitted, however close to t1 they lie.
C22_NoGridPointNearAfterUnload ==
  (CallDone /\ UnloadInside) =>
    \A i \in 0 .. callArgs.nPoints :
      IF QLt(GridTime(i), callArgs.tRemoval)
        THEN /\ i \in EmittedSteps
             /\ callResult[i + 1].t = toFixed6(GridTime(i))
      ELSE i \in EmittedSteps =>
             /\ callResult[RegularIndex(i)].t = toFixed6(GridTime(i))
             /\ ~NearNode(i)

\* the unload falls less than half a step after a grid point, which is
\* emitted, and the grid point of the crossing step is emitted too
C22_Witness ==
  /\ CallDone /\ UnloadInside
  /\ \E i \in CrossingSteps :
       /\ NearNode(i - 1) /\ ~NearNode(i)
       /\ {i - 1, i} \subseteq EmittedSteps
       /\ callResult[i].t = toFixed6(GridTime(i - 1))
       /\ callResult[i + 3].t = toFixed6(GridTime(i))
       /\ Len(callResult) = callArgs.nPoints + 3

(***************************************************************************)
(* The function creepAtTime hands to inverseLaplace.                       *)
(***************************************************************************)
\* creepAtTime was called at a time above 0
CreepInverted == callFn = "creepAtTime" /\ QGt(callArgs.t, QZero)

\* s = (i + 1) * ln2 / t of the loop of inverseLaplace, i counting from 1
Abscissa(i) == DMul(DoubleOf(QInt(i)), DDiv(LN2, DoubleOf(callArgs.t)))

\* sigma0 / (s * Z(s)) in exact arithmetic, Z(s) not 0
ExactCreepTransform(s) ==
  QDiv(callArgs.magnitude, QMul(s, impedance(callArgs.model, s)))

\* C23 as stated: for t > 0 creepAtTime inverts F(s) = sigma0 / (s * Z(s)),
\* and where Z(s) is 0 the sentinel 1e30 stands in the denominator:
\* F(s) = sigma0 / 1e30.
C23_SentinelInDenominator ==
  CreepInverted =>
    /\ callResult.op = "ilt"
    /\ \A i \in 1 .. STEHFEST_N :
         LET s == Abscissa(i)
             Fs == closureAt(callResult.F, s)
         IN IF QEq(impedance(callArgs.model, RationalOf(s)), QZero)
              THEN Fs = DDiv(DoubleOf(callArgs.magnitude), DoubleOf(QSci(1, 30)))
            ELSE WithinTolerance(RationalOf(Fs),
                                 ExactCreepTransform(RationalOf(s)))

\* C23 amended: for t > 0 creepAtTime inverts F(s) = sigma0 / (s * Z(s)),
\* and where Z(s) is 0 the function returns the sentinel 1e30 itself,
\* whatever sigma0 is.
C23_SentinelReturned ==
  CreepInverted =>
    /\ callResult.op = "ilt"
    /\ \A i \in 1 .. STEHFEST_N :
         LET s == Abscissa(i)
             Fs == closureAt(callResult.F, s)
         IN IF QEq(impedance(callArgs.model, RationalOf(s)), QZero)
              THEN Fs = DoubleOf(QSci(1, 30))
            ELSE WithinTolerance(RationalOf(Fs),
                                 ExactCreepTransform(RationalOf(s)))

\* creepAtTime was called at t > 0 on the empty parallel group (Z = 0) with
\* sigma0 = 5/2: the function returns 1e30 at the first abscissa
C23_Witness ==
  /\ CreepInverted
  /\ callArgs.model = Group("parallel", "root", <<>>)
  /\ callArgs.magnitude = QRat(5, 2)
  /\ callResult.op = "ilt"
  /\ impedanceDouble(callResult.F.model, Abscissa(1)) = DZero
  /\ closureAt(callResult.F, Abscissa(1)) = DoubleOf(QSci(1, 30))

(***************************************************************************)
(* The Stehfest weights against their formula in exact arithmetic.         *)
(***************************************************************************)
RECURSIVE ExactFactorial(_)
ExactFactorial(n) == IF n <= 1 THEN QInt(1) ELSE QMul(QInt(n), ExactFactorial(n - 1))

RECURSIVE ExactPower(_, _)
ExactPower(b, e) == IF e = 0 THEN QInt(1) ELSE QMul(QInt(b), ExactPower(b, e - 1))

\* k^(N/2) (2k)! / [(N/2 - k)! k! (k - 1)! (i - k)! (2k - i)!]
ExactTerm(N, i, k) ==
  QDiv(QMul(ExactPower(k, N \div 2), ExactFactorial(2 * k)),
       QMul(QMul(QMul(QMul(ExactFactorial(N \div 2 - k), ExactFactorial(k)),
                      ExactFactorial(k - 1)),
                 ExactFactorial(i - k)),
            ExactFactorial(2 * k - i)))

RECURSIVE ExactSum(_, _, _, _)
ExactSum(N, i, k, kLast) ==
  IF k > kLast THEN QZero
  ELSE QAdd(ExactTerm(N, i, k), ExactSum(N, i, k + 1, kLast))

\* (-1)^(i + N/2) times the sum for k from kFirst to min(i, N/2)
ExactWeight(N, i, kFirst) ==
  LET sum == ExactSum(N, i, kFirst, IF i < N \div 2 THEN i ELSE N \div 2)
  IN IF (i + N \div 2) % 2 = 0 THEN sum ELSE QNeg(sum)

\* |v - expected| <= 1e-9 * |expected|
Agrees(v, expected) ==
  QLe(QAbs(QSub(v, expected)), QMul(QSci(1, -9), QAbs(expected)))

RECURSIVE TermsAdded(_, _, _, _, _)
\* sum after the additions of the terms ks[j], ks[j + 1], ...
TermsAdded(N, i, ks, j, sum) ==
  IF j > Len(ks) \/ sum.k = "nan" THEN sum
  ELSE TermsAdded(N, i, ks, j + 1, DAdd(sum, stehfestTerm(N, i, ks[j])))

\* the double an entry of V stands for
WeightValue(w) ==
  IF w.op = "zero" THEN DZero
  ELSE LET sum == TermsAdded(w.N, w.i, w.ks, 1, DZero)
       IN IF w.negate THEN DNeg(sum) ELSE sum

\* stehfestCoeffs has returned
Returned == callFn = "returned"

\* C24 as stated: for every even N, stehfestCoeffs(N) returns N values, V_i
\* being (-1)^(i + N/2) times the sum for k from ceil((i + 1) / 2) to
\* min(i, N/2) of k^(N/2) (2k)! / [(N/2 - k)! k! (k - 1)! (i - k)! (2k - i)!]
\* (up to the rounding of double arithmetic).
C24_WeightsFromCeiling ==
  Returned =>
    /\ Len(callResult) = callArgs.N
    /\ \A i \in 1 .. callArgs.N :
         Agrees(RationalOf(WeightValue(callResult[i])),
                ExactWeight(callArgs.N, i, (i + 2) \div 2))

\* C24 amended: the same with the sum starting at k = floor((i + 1) / 2).
C24_WeightsFromFloor ==
  Returned =>
    /\ Len(callResult) = callArgs.N
    /\ \A i \in 1 .. callArgs.N :
         LET Vi == WeightValue(callResult[i])
         IN /\ Vi.k = "fin"
            /\ callArgs.N = STEHFEST_N => Vi = coeffsArray[i]
            /\ Agrees(RationalOf(Vi),
                      ExactWeight(callArgs.N, i, (i + 1) \div 2))

\* stehfestCoeffs(12) has returned; its last weight is the single term
\* k = 6 of the sum, which a sum from the ceiling leaves out
C24_Witness ==
  /\ Returned
  /\ callArgs.N = STEHFEST_N
  /\ Len(callResult) = STEHFEST_N
  /\ callResult[STEHFEST_N].ks = << STEHFEST_N \div 2 >>
  /\ ~callResult[STEHFEST_N].negate
  /\ Agrees(RationalOf(WeightValue(callResult[STEHFEST_N])),
            ExactTerm(STEHFEST_N, STEHFEST_N, STEHFEST_N \div 2))

(***************************************************************************)
(* The calls and the result of inverseLaplace.                             *)
(***************************************************************************)
\* ln(2) as the code has it: the double Math.LN2
ExactLn2 == RationalOf(LN2)

\* F(s) in exact arithmetic for a function whose impedance is not 0 at s
ExactTransform(F, s) ==
  IF F.fn = "creep" THEN QDiv(F.mag, QMul(s, impedance(F.model, s)))
  ELSE QDiv(QMul(F.mag, impedance(F.model, s)), s)

RECURSIVE ExactStehfest(_, _, _, _)
\* the sum of V_i * F(i * c) from index i on, in exact arithmetic
ExactStehfest(F, c, V, i) ==
  IF i > Len(V) THEN QZero
  ELSE QAdd(QMul(RationalOf(V[i]), ExactTransform(F, QMul(QInt(i), c))),
            ExactStehfest(F, c, V, i + 1))

RECURSIVE CallsSummed(_, _, _, _, _)
\* the sum of V[calls[j]] * F(calls[j] * c) over the calls from j on, in
\* the arithmetic of the code
CallsSummed(F, c, calls, j, sum) ==
  IF j > Len(calls) \/ sum.k = "nan" THEN sum
  ELSE CallsSummed(F, c, calls, j + 1,
                   DAdd(sum, DMul(coeffsArray[calls[j]],
                                  closureAt(F, DMul(DoubleOf(QInt(calls[j])), c)))))

\* inverseLaplace has returned
InverseReturned == callFn = "returned" /\ callResult.value # Null

\* C25: inverseLaplace(F, t) returns 0 for t <= 0 without a call of F; for
\* t > 0 it calls F at the 12 abscissas i * ln2 / t, i = 1 .. 12, once
\* each, and returns (ln2 / t) times the sum of V_i * F(s_i), V being the
\* array of weights computed when the module was loaded.  The value is the
\* sum over the calls made, in the arithmetic of the code; for the lone
\* spring of stiffness 1 (F(s) = mag / s) it is also compared with the sum in
\* exact arithmetic.
C25_InverseLaplace ==
  InverseReturned =>
    LET F == callArgs.F
        t == callArgs.t
        c == DDiv(LN2, DoubleOf(t))
    IN IF QLe(t, QZero)
         THEN callResult.value = Num(QZero) /\ callResult.calls = <<>>
       ELSE /\ callResult.calls = [i \in 1 .. STEHFEST_N |-> i]
            /\ callResult.value.op = "ilt"
            /\ callResult.value.V = stehfestCoeffs(STEHFEST_N)
            /\ LET x == DoubleValue(callResult.value, coeffsArray)
               IN /\ x = DMul(CallsSummed(F, c, callResult.calls, 1, DZero), c)
                  /\ F.model = UnitSpring =>
                       /\ x.k = "fin"
                       /\ WithinTolerance(
                            RationalOf(x),
                            QMul(QDiv(ExactLn2, t),
                                 ExactStehfest(F, QDiv(ExactLn2, t),
                                               coeffsArray, 1)))

\* inverseLaplace has returned from a call at t > 0 on the creep function
\* of the Maxwell model, after twelve calls of F
C25_Witness ==
  /\ InverseReturned
  /\ QGt(callArgs.t, QZero)
  /\ callArgs.F.fn = "creep" /\ callArgs.F.model = PresetMaxwell
  /\ Len(callResult.calls) = STEHFEST_N
  /\ callResult.value.op = "ilt"

\* inverseLaplace has returned 0 from a call at t = 0
C25_WitnessZero ==
  /\ InverseReturned
  /\ callArgs.t = QZero
  /\ callResult.value = Num(QZero)

(***************************************************************************)
(* The load history of an output.                                          *)
(***************************************************************************)
\* C26: in every output of computeCreep and computeRelaxation, whatever
\* tRemoval is, the load of a point is the full magnitude or 0, and after a
\* point of load 0 every point has load 0.
C26_LoadNeverReapplied ==
  CallDone =>
    /\ \A k \in 1 .. Len(callResult) :
         callResult[k].load \in {callArgs.magnitude, QZero}
    /\ \A k \in 1 .. Len(callResult) : \A l \in k .. Len(callResult) :
         callResult[k].load = QZero => callResult[l].load = QZero

\* an output that starts under the full load, holds the synthetic pair and
\* ends with at least two regular points of load 0
C26_Witness ==
  /\ CallDone /\ UnloadInside
  /\ callResult[1].load = callArgs.magnitude
  /\ \E i \in CrossingSteps :
       /\ i + 4 <= Len(callResult)
       /\ callResult[i + 1].load = callArgs.magnitude
       /\ \A l \in i + 2 .. Len(callResult) : callResult[l].load = QZero

(***************************************************************************)
(* The two samplers side by side.                                          *)
(***************************************************************************)
\* the output of the other sampler on the tree m and the magnitude g, with
\* tMax, nPoints and tRemoval of the call made
Counterpart(m, g) ==
  IF callFn = "computeCreep"
    THEN computeRelaxation(m, callArgs.tMax, QInt(callArgs.nPoints), g,
                           callArgs.tRemoval)
  ELSE computeCreep(m, callArgs.tMax, QInt(callArgs.nPoints), g,
                    callArgs.tRemoval)

\* C27: for the same tMax, nPoints and tRemoval, computeCreep and
\* computeRelaxation return sequences of the same length, with the same t
\* at every index and load 0 at the same indices, whatever the trees and
\* the magnitudes are.
C27_SamplersAligned ==
  CallDone =>
    \A m \in SamplerModels, g \in SamplerMagnitudes :
      LET other == Counterpart(m, g)
      IN /\ Len(other) = Len(callResult)
         /\ \A k \in 1 .. Len(callResult) :
              /\ other[k].t = callResult[k].t
              /\ other[k].load = QZero <=> callResult[k].load = QZero

\* computeCreep was called on the Maxwell model with an unload inside
\* (0, tMax); computeRelaxation on the Voigt model with another magnitude
\* holds its synthetic pair at the same indices
C27_Witness ==
  /\ callFn = "computeCreep" /\ UnloadInside
  /\ callArgs.model = PresetMaxwell /\ callArgs.magnitude = QInt(1)
  /\ \E i \in CrossingSteps :
       LET other == Counterpart(PresetVoigt, QRat(5, 2))
       IN /\ other[i + 1].load = QRat(5, 2) /\ other[i + 2].load = QZero
          /\ callResult[i + 1].load = QInt(1) /\ callResult[i + 2].load = QZero
          /\ other[i + 2].value # callResult[i + 2].value

(***************************************************************************)
(* The root of the model tree.                                             *)
(***************************************************************************)
\* C28: after any sequence of editor operations the model is not null and
\* its root is a series or a parallel node; a remove request for the id of
\* the root stores nothing (model and selection stay as they are), and a
\* remove request for any other node stores a tree with the same root.
C28_RootKept ==
  /\ model # Null
  /\ model.type \in {"series", "parallel"}
  /\ removeRequest(model, model.id) = Null
  /\ \A n \in NodesOf(model) :
       n.id # model.id =>
         LET stored == removeRequest(model, n.id)
         IN /\ stored # Null
            /\ stored.model.id = model.id
            /\ stored.model.type = model.type

\* a node is selected and a child of the root was removed: the root is
\* still there, with fewer children than the preset it came from
C28_Witness ==
  /\ selectedId # Null
  /\ treeEdits > 0
  /\ model.id = genId(100)
  /\ Len(model.children) < Len(PresetStd3Maxwell.children)

(***************************************************************************)
(* A computation that throws.                                              *)
(***************************************************************************)
\* C29: when computeCreep or computeRelaxation throws in the callback of a
\* timer, plotData keeps the value it had before the callback, as a whole,
\* and computing is false after it.
C29_ThrowKeepsPlot ==
  [][(timers # <<>> /\ timers' = Tail(timers) /\ thrown' # "none") =>
       (plotData' = plotData /\ computing' = FALSE)]_vars

\* computeRelaxation threw in a callback scheduled after an edit of sigma0:
\* the plot is still the one of the inputs before the edit
C29_Witness ==
  /\ thrown = "computeRelaxation"
  /\ plotData # Null
  /\ plotArgs # Null /\ plotArgs.sigma0 # sigma0
  /\ timers = <<>>
  /\ ~computing

(***************************************************************************)
(* Playback of the animation.                                              *)
(***************************************************************************)
\* the smaller of two integers
Smaller(a, b) == IF a < b THEN a ELSE b

\* a step of a playback that was started with Play and is not interrupted
\* by this step: a tick
Ticks == playing /\ ~interrupted'

\* each tick moves frameIndex one frame on, and not beyond the last frame
TickAdvances ==
  [][Ticks => /\ totalFrames > 0
              /\ frameIndex' = Smaller(frameIndex + 1, totalFrames - 1)
              /\ frameIndex' <= totalFrames - 1
              /\ playing' = (frameIndex < totalFrames - 1)]_vars

\* a playback under way ends at the last frame unless it is interrupted
PlaysToTheEnd ==
  (playing /\ totalFrames > 0) ~>
    (interrupted \/ (~playing /\ frameIndex = totalFrames - 1))

\* C30: with a series that is not empty, a playback started with Play and
\* not interrupted by pause, reset, scrub, mode switch or new data moves
\* frameIndex one frame on per tick, never beyond totalFrames - 1, and in
\* the end stops with frameIndex = totalFrames - 1 and playing = false (the
\* tick taken at the last frame is the one that stops it).
C30_PlaybackRunsToEnd == TickAdvances /\ PlaysToTheEnd

\* a playback of the relaxation series has run from Play to its end
C30_Witness ==
  /\ animMode = "relax"
  /\ ~playing /\ ~interrupted
  /\ totalFrames = PRE_LOAD_FRAMES + MaxSeries
  /\ frameIndex = totalFrames - 1

====
